---- MODULE Spec2Model ----
(***************************************************************************)
(* Model of the hive-mind simulation worker (simulation.worker.ts): the    *)
(* module-level engine state, the message handler, the tick and the loop   *)
(* timer.  The strategy's tick is abstracted to its effect on the          *)
(* population (positions and states drawn from small sets) and on its own  *)
(* per-agent memory; everything the worker itself does is modelled step by *)
(* step.                                                                   *)
(***************************************************************************)
EXTENDS Integers, Sequences, FiniteSets, TLC

VARIABLES
    agents,       \* let agents: Agent[]
    config,       \* let config: SimConfig | null
    obstacles,    \* let obstacles: Obstacle[]
    algorithm,    \* let algorithm: SwarmAlgorithm | null
    spatialHash,  \* let spatialHash: SpatialHash | null
    tick,         \* let tick
    running,      \* let running
    debugEnabled, \* let debugEnabled
    animFrameId,  \* let animFrameId: timer id | null
    posHistory,   \* const posHistory: Map<id, {x,y}[]>
    timers,       \* timers set by setTimeout that have neither fired nor been cleared
    out,          \* events posted by the handler (or timer callback) that ran last
    last,         \* the message type handled last ("TIMER" for a timer callback)
    partial,      \* payload of the INIT / SET_DEBUG, msg.config of the UPDATE_CONFIG handled last (<< >> otherwise)
    ctl,          \* the last of PLAY / PAUSE / STEP handled
    seen,         \* which of INIT / RESET have been handled so far
    executed,     \* number of ticks executed so far
    created,      \* what the last handler constructed: "algorithm", "spatialHash"
    lastTick,     \* tick value carried by the most recent TICK event (-1: none yet)
    rec,          \* per id, the positions simTick recorded since the last clear (last 41)
    origin,       \* where the live population came from
    age,          \* ticks executed on the live population since it was installed
    cmds,         \* number of population-installing commands handled (bounded runs)
    prior,        \* the strategy instance the last INIT / UPDATE_CONFIG / RESET found in place
    hashIndex,    \* a SpatialHash under test: its cellSize and its grid
    hashInput,    \* the agent list of the most recent insertAll on hashIndex
    hashQuery,    \* the arguments and the result of the most recent queryRadius on hashIndex
    ant,          \* a foraging strategy under test: its world and the memory of one ant
    field,        \* a foraging strategy under test: its pheromone grid and tick count
    swarm,        \* a swarm-optimization strategy under test: targets, particle memory, global best
    motion,       \* the velocity update of a strategy under test: its inputs and the emitted velocity
    store,        \* the UI thread's store: population, tick, status, rollback history, messages sent
    emit          \* one agent ticked by a strategy and the detector: its memory, history and emitted state

\* the state of the worker and its observation
workerVars == <<agents, config, obstacles, algorithm, spatialHash, tick, running,
                debugEnabled, animFrameId, posHistory, timers, out, last, partial, ctl,
                seen, executed, created, lastTick, rec, origin, age, cmds, prior>>

\* the state of the spatial index exercised on its own
hashVars == <<hashIndex, hashInput, hashQuery>>

\* what the worker specifications leave alone
unitVars == <<hashVars, ant, field, swarm, motion, store, emit>>

vars == <<workerVars, unitVars>>

\* ---------------------------------------------------------------- bounds
MaxTicks == 3     \* ticks executed in a run of the protocol specification
MaxTimers == 2    \* loop timers pending at once
MaxTicksD == 41   \* ticks executed in a run of the detector specification
MaxCmdsD == 2     \* population-installing commands in a run of the detector specification

\* ------------------------------------------------------ program constants
ANOMALY_WINDOW == 40
ANOMALY_DISPLACEMENT == 8
Active == 0
Stuck == 1
Anomaly == 2

Boids == "boids"
AntColony == "antColony"
PSO == "pso"
AlgorithmType == {Boids, AntColony, PSO}

\* null values of the nullable module variables
NoConfig == [null |-> TRUE]
NoAlgorithm == [kind |-> "null", tickCount |-> 0, mem |-> {}]
NoSpatialHash == [cellSize |-> -1, count |-> 0]
NoTimer == 0

Ids == {0, 1}
Points == {[x |-> 0, y |-> 0], [x |-> 8, y |-> 0]}
Fields == {"algorithm", "agentCount", "neighborRadius"}

\* ------------------------------------------------------------ helpers
Range(s) == {s[i] : i \in DOMAIN s}

\* JavaScript truthiness of a config value: a non-empty string, a non-zero number
TruthyString(v) == v # ""
TruthyNumber(v) == v # 0

\* the spread written the other way round: { ...msg.config, ...config }
Merge_Reversed(c, p) ==
    [f \in (DOMAIN c) \cup (DOMAIN p) |-> IF f \in DOMAIN c THEN c[f] ELSE p[f]]

\* { ...config, ...msg.config }
Merge(c, p) ==
    [f \in (DOMAIN c) \cup (DOMAIN p) |-> IF f \in DOMAIN p THEN p[f] ELSE c[f]]

\* the instance in place handed back under the requested selector
GetAlgorithm_Reuse(type) == [algorithm EXCEPT !.kind = type]

\* getAlgorithm: a new strategy instance, with no memory
GetAlgorithm(type) == [kind |-> type, tickCount |-> 0, mem |-> {}]

\* new SpatialHash(cellSize)
NewSpatialHash(cellSize) == [cellSize |-> cellSize, count |-> 0]

\* SpatialHash.insertAll: clear, then insert every agent
InsertAll(h, ags) == [h EXCEPT !.count = Len(ags)]

\* spawnAgents numbering the agents from 1
SpawnAgents_OneBased(cfg, pts) ==
    [i \in 1..cfg.agentCount |->
        [id |-> i, x |-> pts[i].x, y |-> pts[i].y, state |-> Active]]

\* spawnAgents: agentCount agents with ids 0..agentCount-1 at the drawn positions
SpawnAgents(cfg, pts) ==
    [i \in 1..cfg.agentCount |->
        [id |-> i - 1, x |-> pts[i].x, y |-> pts[i].y, state |-> Active]]

DistSq(ax, ay, bx, by) == (ax - bx) * (ax - bx) + (ay - by) * (ay - by)

\* ------------------------------------------------------ strategy (abstract)
\* states a strategy of this kind can emit (boids.ts:93, antColony:226, pso:214)
StrategyStates(kind) == IF kind = Boids THEN {Active} ELSE {Active, Stuck}

\* a tick that returns the population without its last agent
StrategyAgents_Short(ags, outc) ==
    [i \in 1..(Len(ags) - 1) |->
        [id |-> ags[i].id, x |-> outc[i].x, y |-> outc[i].y, state |-> outc[i].state]]

\* algorithm.tick on the population: same length, same ids, new position and
\* state per agent as drawn in outc
StrategyAgents(ags, outc) ==
    [i \in 1..Len(ags) |->
        [id |-> ags[i].id, x |-> outc[i].x, y |-> outc[i].y, state |-> outc[i].state]]

\* algorithm.tick on the instance: the foraging and swarm strategies count their
\* ticks and create a memory record for every id they see, the swarm strategy
\* wipes its memory on every 120th tick before that; flocking keeps no memory
StrategyMemory(alg, ags) ==
    IF alg.kind = Boids THEN alg
    ELSE LET n == alg.tickCount + 1
             kept == IF alg.kind = PSO /\ n % 120 = 0 THEN {} ELSE alg.mem
         IN  [alg EXCEPT !.tickCount = n,
                         !.mem = kept \cup {ags[i].id : i \in 1..Len(ags)}]

\* -------------------------------------------------------- anomaly detector
\* the window that drops the newest position once it is full
PushWindow_Newest(h, p) ==
    LET g == Append(h, p) IN IF Len(g) > ANOMALY_WINDOW THEN SubSeq(g, 1, ANOMALY_WINDOW) ELSE g

\* h.push({x, y}); if (h.length > ANOMALY_WINDOW) h.shift()
PushWindow(h, p) ==
    LET g == Append(h, p) IN IF Len(g) > ANOMALY_WINDOW THEN Tail(g) ELSE g

\* h.length >= ANOMALY_WINDOW and displacement(latest, h[0]) < 8
IsStuck(h, a) ==
    /\ Len(h) >= ANOMALY_WINDOW
    /\ DistSq(a.x, a.y, h[1].x, h[1].y) < ANOMALY_DISPLACEMENT * ANOMALY_DISPLACEMENT

\* the loop of simTick over the agents from index i on: st.agents and st.hist
\* are the population and the history map as left by the agents before i
RECURSIVE Detect(_, _)
Detect(st, i) ==
    IF i > Len(st.agents) THEN st
    ELSE LET a == st.agents[i]
             h == PushWindow(st.hist[a.id], [x |-> a.x, y |-> a.y])
             b == IF IsStuck(h, a) THEN [a EXCEPT !.state = Anomaly] ELSE a
         IN  Detect([agents |-> [st.agents EXCEPT ![i] = b],
                     hist |-> [st.hist EXCEPT ![a.id] = h]], i + 1)

\* the positions recorded per id, kept one longer than the window
RecordAll(r, ags) ==
    [id \in DOMAIN r |->
        LET mine == {i \in 1..Len(ags) : ags[i].id = id}
        IN  IF mine = {} THEN r[id]
            ELSE LET i == CHOOSE j \in mine : TRUE
                     g == Append(r[id], [x |-> ags[i].x, y |-> ags[i].y])
                 IN  IF Len(g) > ANOMALY_WINDOW + 1 THEN Tail(g) ELSE g]

\* a TICK message that carries debugInfo whatever the debug flag
TickMsg_AlwaysDebug(ags, t, dbg) ==
    [type |-> "TICK", agents |-> ags, tick |-> t, debugInfo |-> TRUE]

\* the TICK message of simTick, INIT and RESET (debugInfo: whether it is carried)
TickMsg(ags, t, dbg) == [type |-> "TICK", agents |-> ags, tick |-> t, debugInfo |-> dbg]
ReadyMsg == [type |-> "READY"]

Initialized == config # NoConfig /\ algorithm # NoAlgorithm /\ spatialHash # NoSpatialHash

\* tick++
NextTick_Twice(t) == t + 2
NextTick(t) == t + 1

\* simTick as a function of the state it reads: the values it leaves in agents,
\* algorithm, spatialHash, posHistory and tick, and the message it posts
SimTickResult(outc) ==
    LET moved == StrategyAgents(agents, outc)
        det == Detect([agents |-> moved, hist |-> posHistory], 1)
    IN  [agents |-> det.agents,
         algorithm |-> StrategyMemory(algorithm, agents),
         spatialHash |-> InsertAll(spatialHash, agents),
         posHistory |-> det.hist,
         tick |-> NextTick(tick),
         msg |-> TickMsg(det.agents, NextTick(tick), debugEnabled)]

\* simTick: returns at once on an uninitialized engine
SimTick(outc) ==
    IF ~Initialized
    THEN /\ UNCHANGED <<agents, algorithm, spatialHash, posHistory, tick,
                        executed, lastTick, rec, age>>
         /\ out' = <<>>
    ELSE LET r == SimTickResult(outc)
         IN  /\ agents' = r.agents
             /\ algorithm' = r.algorithm
             /\ spatialHash' = r.spatialHash
             /\ posHistory' = r.posHistory
             /\ tick' = r.tick
             /\ out' = <<r.msg>>
             /\ executed' = executed + 1
             /\ lastTick' = r.tick
             /\ rec' = RecordAll(rec, r.agents)
             /\ age' = IF age < ANOMALY_WINDOW THEN age + 1 ELSE age

\* ------------------------------------------------------------ loop timer
\* setTimeout returns an id no pending timer has
NewTimer(ts) == CHOOSE t \in 1..(Cardinality(ts) + 1) : t \notin ts

\* simLoop without its "if (!running) return"
SimLoop_NoRunCheck(run, ts, outc) ==
    /\ SimTick(outc)
    /\ animFrameId' = NewTimer(ts)
    /\ timers' = ts \cup {NewTimer(ts)}

\* simLoop entered with the run flag run and the pending timers ts
SimLoop(run, ts, outc) ==
    IF ~run
    THEN /\ UNCHANGED <<agents, algorithm, spatialHash, posHistory, tick,
                        executed, lastTick, rec, age, animFrameId>>
         /\ out' = <<>>
         /\ timers' = ts
    ELSE /\ SimTick(outc)
         /\ animFrameId' = NewTimer(ts)
         /\ timers' = ts \cup {NewTimer(ts)}

\* startLoop
StartLoop(outc) ==
    /\ running' = TRUE
    /\ SimLoop(TRUE, timers, outc)

\* stopLoop
StopLoop ==
    /\ running' = FALSE
    /\ timers' = IF animFrameId # NoTimer THEN timers \ {animFrameId} ELSE timers
    /\ animFrameId' = NoTimer

\* RESET without its posHistory.clear()
ClearedHistory_Kept == posHistory

\* posHistory.clear()
ClearedHistory == [id \in Ids |-> <<>>]

\* posHistory.get(agents[0]?.id)?.fill({x: agents[0]?.x, y: agents[0]?.y})
FillHistory(hist, ags) ==
    IF Len(ags) = 0 THEN hist
    ELSE [hist EXCEPT ![ags[1].id] =
             [k \in 1..Len(hist[ags[1].id]) |-> [x |-> ags[1].x, y |-> ags[1].y]]]

\* ------------------------------------------------------- message handlers
\* the strategy recreated only when the selector's value differs
HasAlgorithm_IfChanged(p) ==
    "algorithm" \in DOMAIN p /\ TruthyString(p.algorithm) /\ p.algorithm # config.algorithm

\* if (msg.config.algorithm): the field is present and truthy
HasAlgorithm(p) == "algorithm" \in DOMAIN p /\ TruthyString(p.algorithm)

\* if (msg.config.neighborRadius): the field is present and truthy
HasNeighborRadius(p) == "neighborRadius" \in DOMAIN p /\ TruthyNumber(p.neighborRadius)

OnINIT(cfg, ags, obs, pts) ==
    /\ config' = cfg
    /\ obstacles' = obs
    /\ algorithm' = GetAlgorithm(cfg.algorithm)
    /\ spatialHash' = NewSpatialHash(cfg.neighborRadius)
    /\ agents' = IF Len(ags) > 0 THEN ags ELSE SpawnAgents(cfg, pts)
    /\ tick' = 0
    /\ out' = <<ReadyMsg, TickMsg(agents', 0, FALSE)>>
    /\ lastTick' = 0
    /\ last' = "INIT"
    /\ partial' = [config |-> cfg, agents |-> ags, obstacles |-> obs]
    /\ seen' = seen \cup {"INIT"}
    /\ created' = {"algorithm", "spatialHash"}
    /\ origin' = IF Len(ags) > 0 THEN "supplied" ELSE "spawned"
    /\ age' = 0
    /\ UNCHANGED <<running, debugEnabled, animFrameId, posHistory, timers, ctl,
                   executed, rec>>

OnUPDATE_CONFIG(p) ==
    /\ IF config # NoConfig
       THEN /\ config' = Merge(config, p)
            /\ algorithm' = IF HasAlgorithm(p)
                            THEN GetAlgorithm(config'.algorithm) ELSE algorithm
            /\ spatialHash' = IF HasNeighborRadius(p)
                              THEN NewSpatialHash(config'.neighborRadius) ELSE spatialHash
            /\ created' = (IF HasAlgorithm(p) THEN {"algorithm"} ELSE {})
                          \cup (IF HasNeighborRadius(p) THEN {"spatialHash"} ELSE {})
       ELSE /\ UNCHANGED <<config, algorithm, spatialHash>>
            /\ created' = {}
    /\ out' = <<>>
    /\ last' = "UPDATE_CONFIG"
    /\ partial' = p
    /\ UNCHANGED <<agents, obstacles, tick, running, debugEnabled, animFrameId,
                   posHistory, timers, ctl, seen, executed, lastTick, rec, origin, age>>

OnUPDATE_OBSTACLES(obs) ==
    /\ obstacles' = obs
    /\ out' = <<>>
    /\ last' = "UPDATE_OBSTACLES"
    /\ partial' = << >>
    /\ created' = {}
    /\ UNCHANGED <<agents, config, algorithm, spatialHash, tick, running, debugEnabled,
                   animFrameId, posHistory, timers, ctl, seen, executed, lastTick, rec,
                   origin, age>>

OnSET_DEBUG(enabled) ==
    /\ debugEnabled' = enabled
    /\ out' = <<>>
    /\ last' = "SET_DEBUG"
    /\ partial' = [enabled |-> enabled]
    /\ created' = {}
    /\ UNCHANGED <<agents, config, obstacles, algorithm, spatialHash, tick, running,
                   animFrameId, posHistory, timers, ctl, seen, executed, lastTick, rec,
                   origin, age>>

OnSET_AGENTS(ags) ==
    /\ agents' = ags
    /\ posHistory' = FillHistory(posHistory, ags)
    /\ out' = <<>>
    /\ last' = "SET_AGENTS"
    /\ partial' = << >>
    /\ created' = {}
    /\ origin' = "rollback"
    /\ age' = 0
    /\ UNCHANGED <<config, obstacles, algorithm, spatialHash, tick, running, debugEnabled,
                   animFrameId, timers, ctl, seen, executed, lastTick, rec>>

OnPLAY(outc) ==
    /\ StartLoop(outc)
    /\ last' = "PLAY"
    /\ partial' = << >>
    /\ ctl' = "PLAY"
    /\ created' = {}
    /\ UNCHANGED <<config, obstacles, debugEnabled, seen, origin>>

OnPAUSE ==
    /\ StopLoop
    /\ out' = <<>>
    /\ last' = "PAUSE"
    /\ partial' = << >>
    /\ ctl' = "PAUSE"
    /\ created' = {}
    /\ UNCHANGED <<agents, config, obstacles, algorithm, spatialHash, tick, debugEnabled,
                   posHistory, seen, executed, lastTick, rec, origin, age>>

OnSTEP(outc) ==
    /\ StopLoop
    /\ SimTick(outc)
    /\ last' = "STEP"
    /\ partial' = << >>
    /\ ctl' = "STEP"
    /\ created' = {}
    /\ UNCHANGED <<config, obstacles, debugEnabled, seen, origin>>

OnRESET(cfg, pts) ==
    /\ StopLoop
    /\ config' = cfg
    /\ algorithm' = GetAlgorithm(cfg.algorithm)
    /\ spatialHash' = NewSpatialHash(cfg.neighborRadius)
    /\ agents' = SpawnAgents(cfg, pts)
    /\ posHistory' = ClearedHistory
    /\ tick' = 0
    /\ out' = <<TickMsg(agents', 0, FALSE)>>
    /\ lastTick' = 0
    /\ last' = "RESET"
    /\ partial' = << >>
    /\ seen' = seen \cup {"RESET"}
    /\ created' = {"algorithm", "spatialHash"}
    /\ origin' = "spawned"
    /\ age' = 0
    /\ rec' = [id \in Ids |-> <<>>]
    /\ UNCHANGED <<obstacles, debugEnabled, ctl, executed>>

\* the callback of a pending loop timer
OnTimer(t, outc) ==
    /\ t \in timers
    /\ SimLoop(running, timers \ {t}, outc)
    /\ last' = "TIMER"
    /\ partial' = << >>
    /\ created' = {}
    /\ UNCHANGED <<config, obstacles, running, debugEnabled, ctl, seen, origin>>

\* ------------------------------------------------------------ the inputs
Agent(id, p, st) == [id |-> id, x |-> p.x, y |-> p.y, state |-> st]
P0 == [x |-> 0, y |-> 0]
P8 == [x |-> 8, y |-> 0]
Min(a, b) == IF a < b THEN a ELSE b
Max(a, b) == IF a > b THEN a ELSE b

Obstacle0 == [id |-> 0, x |-> 8, y |-> 0, radius |-> 30, type |-> "circle"]
ObstacleLists == {<< >>, <<Obstacle0>>}

\* the positions drawn for n spawned agents
SpawnPoints(n) == [1..n -> Points]

\* what a strategy of this kind can return for the population: the agents hold
\* their position or advance by d along x up to the world edge, and carry a
\* state the strategy emits
Outcomes(ags, kind, steps) ==
    {[i \in 1..Len(ags) |-> [x |-> Min(ags[i].x + d, 8), y |-> ags[i].y, state |-> st]] :
        d \in steps, st \in StrategyStates(kind)}

WorkerStart ==
    /\ agents = << >>
    /\ config = NoConfig
    /\ obstacles = << >>
    /\ algorithm = NoAlgorithm
    /\ spatialHash = NoSpatialHash
    /\ tick = 0
    /\ running = FALSE
    /\ debugEnabled = FALSE
    /\ animFrameId = NoTimer
    /\ posHistory = [id \in Ids |-> << >>]
    /\ timers = {}
    /\ out = << >>
    /\ last = "NONE"
    /\ partial = << >>
    /\ ctl = "NONE"
    /\ seen = {}
    /\ executed = 0
    /\ created = {}
    /\ lastTick = -1
    /\ rec = [id \in Ids |-> << >>]
    /\ origin = "none"
    /\ age = 0
    /\ cmds = 0
    /\ prior = NoAlgorithm

\* ------------------------------------------------------- spatial index
\* SpatialHash.cellCoords: floor(x / cellSize), floor(y / cellSize)
CellCoords(cellSize, x, y) == <<x \div cellSize, y \div cellSize>>

\* Math.ceil(radius / cellSize)
CeilDiv(a, b) == -((-a) \div b)

NoGrid == [k \in {} |-> << >>]

\* SpatialHash.insert: append to the agent's cell, creating the cell if absent
Insert(grid, cellSize, a) ==
    LET k == CellCoords(cellSize, a.x, a.y)
    IN  IF k \in DOMAIN grid
        THEN [grid EXCEPT ![k] = Append(@, a)]
        ELSE [j \in (DOMAIN grid) \cup {k} |-> IF j = k THEN <<a>> ELSE grid[j]]

RECURSIVE InsertFrom(_, _, _, _)
InsertFrom(grid, cellSize, ags, i) ==
    IF i > Len(ags) THEN grid
    ELSE InsertFrom(Insert(grid, cellSize, ags[i]), cellSize, ags, i + 1)

\* insertAll without its clear()
ClearGrid_Kept(grid) == grid

\* SpatialHash.clear
ClearGrid(grid) == NoGrid

\* SpatialHash.insertAll: clear, then insert every agent
HashInsertAll(h, ags) ==
    [h EXCEPT !.grid = InsertFrom(ClearGrid(h.grid), h.cellSize, ags, 1)]

\* the cells queryRadius visits: dx, dy from -span to span around the query's cell
QueryCells(h, x, y, radius) ==
    LET c == CellCoords(h.cellSize, x, y)
        span == CeilDiv(radius, h.cellSize)
    IN  {<<c[1] + dx, c[2] + dy>> : dx \in (-span)..span, dy \in (-span)..span}

\* SpatialHash.queryRadius, as the set of the agents it returns
QueryRadius(h, x, y, radius, excludeId) ==
    LET r2 == radius * radius
        cells == QueryCells(h, x, y, radius) \cap DOMAIN h.grid
    IN  UNION {{h.grid[k][i] : i \in {j \in 1..Len(h.grid[k]) :
                    /\ h.grid[k][j].id # excludeId
                    /\ DistSq(h.grid[k][j].x, h.grid[k][j].y, x, y) <= r2}} : k \in cells}

NoQuery == [asked |-> FALSE, x |-> 0, y |-> 0, radius |-> 0, excludeId |-> -1, result |-> {}]

HashIdle ==
    /\ hashIndex = [cellSize |-> 1, grid |-> NoGrid]
    /\ hashInput = << >>
    /\ hashQuery = NoQuery

\* ------------------------------------------------- foraging: pheromone field
\* AntColonyAlgorithm before init; quiet observes the ticks since the last
\* deposit, pLevel the level sampled at the position of the ant of a trail
NoField == [cols |-> 0, rows |-> 0, grid |-> << >>, tickCount |-> 0, quiet |-> 0,
            pLevel |-> 0]
FieldIdle == field = NoField

\* pheromone values are in thousandths (12 is 12000, the 0.01 threshold is 10);
\* products and quotients are rounded down to a thousandth
PHEROMONE_MAX == 12000
PHEROMONE_MIN == 10

\* pheromoneGrid[i] *= 0.993, nothing snapped to 0
Evaporate_NoSnap(v) == (v * 993) \div 1000

\* pheromoneGrid[i] *= 0.993; if (pheromoneGrid[i] < 0.01) pheromoneGrid[i] = 0
Evaporate(v) ==
    LET e == (v * 993) \div 1000 IN IF e < PHEROMONE_MIN THEN 0 ELSE e

\* the cells around (x, y) that lie in the grid, (x, y) itself apart (0-based)
Neighbours(f, x, y) ==
    {c \in ((x - 1)..(x + 1)) \X ((y - 1)..(y + 1)) :
        /\ c # <<x, y>>
        /\ c[1] >= 0 /\ c[1] < f.cols
        /\ c[2] >= 0 /\ c[2] < f.rows}

\* row-major index (1-based) of cell (x, y)
CellIndex(f, x, y) == y * f.cols + x + 1

RECURSIVE SumCells(_, _)
SumCells(f, cs) ==
    IF cs = {} THEN 0
    ELSE LET c == CHOOSE d \in cs : TRUE
         IN  f.grid[CellIndex(f, c[1], c[2])] + SumCells(f, cs \ {c})

\* a blend divided by the centre's weight alone
Blend_Unnormalised(f, x, y) ==
    (12 * f.grid[CellIndex(f, x, y)] + SumCells(f, Neighbours(f, x, y))) \div 12

\* sum / count with weight 0.6 for the cell and 0.05 for each neighbour in the
\* grid (both scaled by 20)
Blend(f, x, y) ==
    (12 * f.grid[CellIndex(f, x, y)] + SumCells(f, Neighbours(f, x, y)))
        \div (12 + Cardinality(Neighbours(f, x, y)))

\* diffusePheromones
Diffuse(f) ==
    [f EXCEPT !.grid = [i \in 1..(f.cols * f.rows) |->
                            Blend(f, (i - 1) % f.cols, (i - 1) \div f.cols)]]

\* the deposit's cells with the test on the rows only
DepositCells_Wrapping(f, x, y, strength) ==
    {[cell |-> <<x + o[1], y + o[2]>>,
      s |-> IF o = <<0, 0>> THEN strength ELSE (strength * 3) \div 10] :
        o \in {d \in {<<0, 0>>, <<1, 0>>, <<-1, 0>>, <<0, 1>>, <<0, -1>>} :
                 /\ y + d[2] >= 0 /\ y + d[2] < f.rows}}

\* the cells a deposit at cell (x, y) writes to with the strength it adds
DepositCells(f, x, y, strength) ==
    {[cell |-> <<x + o[1], y + o[2]>>,
      s |-> IF o = <<0, 0>> THEN strength ELSE (strength * 3) \div 10] :
        o \in {d \in {<<0, 0>>, <<1, 0>>, <<-1, 0>>, <<0, 1>>, <<0, -1>>} :
                 /\ x + d[1] >= 0 /\ x + d[1] < f.cols
                 /\ y + d[2] >= 0 /\ y + d[2] < f.rows}}

\* depositPheromone at cell (x, y)
Deposit(f, x, y, strength) ==
    [f EXCEPT !.grid = [i \in 1..(f.cols * f.rows) |->
        LET hit == {d \in DepositCells(f, x, y, strength) :
                        CellIndex(f, d.cell[1], d.cell[2]) = i}
        IN  IF hit = {} THEN f.grid[i]
            ELSE Min(f.grid[i] + (CHOOSE d \in hit : TRUE).s, PHEROMONE_MAX)]]

RECURSIVE DepositTimes(_, _, _, _, _)
DepositTimes(f, x, y, strength, n) ==
    IF n = 0 THEN f ELSE DepositTimes(Deposit(f, x, y, strength), x, y, strength, n - 1)

\* the field part of AntColonyAlgorithm.tick with n returning ants in cell (0, 0)
\* at a food source: evaporate, diffuse on every 4th tick, then their deposits
FieldUpdate(f, n) ==
    LET t == f.tickCount + 1
        e == [f EXCEPT !.grid = [i \in 1..(f.cols * f.rows) |-> Evaporate(f.grid[i])]]
        d == IF t % 4 = 0 THEN Diffuse(e) ELSE e
        g == DepositTimes(d, 0, 0, 3000, n)
    IN  [g EXCEPT !.tickCount = t, !.quiet = IF n = 0 THEN f.quiet + 1 ELSE 0]

\* ------------------------------------------------------- swarm optimization
\* positions and target velocities of the swarm-optimization unit are in tenths
\* of a world unit; a fitness (the distance to the nearest target) is kept as
\* its square, which orders fitnesses as the distances do
SwarmScale == 10

\* private globalBestFitness = Infinity: above every fitness of the model
Infinity == 2147483647

\* if (this.tickCount % 120 === 0)
TELEPORT_PERIOD == 120

\* targets bounce 40 units from the walls
TARGET_MARGIN == 400

\* particles: Map<number, ParticleMemory>, empty
NoParticles == [id \in {} |-> << >>]

\* particles.set(id, mem)
PutParticle(ps, id, mem) ==
    [k \in (DOMAIN ps) \cup {id} |-> IF k = id THEN mem ELSE ps[k]]

\* PSOAlgorithm as constructed.  Observation of the last tick: moved is the
\* targets after their movement, draw the random target state of the teleport
\* block (<< >>: the block did not run), lost the ids whose memory the block
\* cleared, mid the memory and the global best in front of the agent loop,
\* improved the ids whose personal best the loop replaced, ags the agents the
\* tick was handed
NoSwarm ==
    [initialized |-> FALSE, tickCount |-> 0, targets |-> << >>,
     particles |-> NoParticles, globalBestFitness |-> Infinity,
     world |-> [w |-> 0, h |-> 0],
     moved |-> << >>, draw |-> << >>, lost |-> {},
     mid |-> [particles |-> NoParticles, globalBestFitness |-> Infinity],
     improved |-> {}, ags |-> << >>]

SwarmIdle == swarm = NoSwarm

\* init: three targets, no memory, no global best
PsoInit(s, world) ==
    [s EXCEPT
        !.targets = <<[x |-> (world.w * SwarmScale * 25) \div 100,
                       y |-> (world.h * SwarmScale * 25) \div 100, vx |-> 25, vy |-> 18],
                      [x |-> (world.w * SwarmScale * 75) \div 100,
                       y |-> (world.h * SwarmScale * 75) \div 100, vx |-> -20, vy |-> 22],
                      [x |-> (world.w * SwarmScale * 50) \div 100,
                       y |-> (world.h * SwarmScale * 15) \div 100, vx |-> 15, vy |-> -15]>>,
        !.globalBestFitness = Infinity,
        !.particles = NoParticles,
        !.initialized = TRUE]

\* fitness: the (squared) distance to the nearest target
Fitness(targets, x, y) ==
    LET ds == {DistSq(x, y, targets[i].x, targets[i].y) : i \in DOMAIN targets}
    IN  IF ds = {} THEN Infinity ELSE CHOOSE m \in ds : \A n \in ds : m <= n

\* a target's coordinate clamped at the margins with its velocity kept
MoveAxis_Through(p, v, size) ==
    [p |-> Max(TARGET_MARGIN, Min(size - TARGET_MARGIN, p + v)), v |-> v]

\* one coordinate of a target's movement: step, then bounce off the margins
MoveAxis(p, v, size) ==
    LET q == p + v
    IN  IF q < TARGET_MARGIN \/ q > size - TARGET_MARGIN
        THEN [p |-> Max(TARGET_MARGIN, Min(size - TARGET_MARGIN, q)), v |-> -v]
        ELSE [p |-> q, v |-> v]

MoveTarget(t, world) ==
    LET mx == MoveAxis(t.x, t.vx, world.w * SwarmScale)
        my == MoveAxis(t.y, t.vy, world.h * SwarmScale)
    IN  [x |-> mx.p, y |-> my.p, vx |-> mx.v, vy |-> my.v]

\* the target chosen one period late
TeleportIndex_Previous(t, n) == ((t \div TELEPORT_PERIOD) - 1) % n

\* idx = this.tickCount / 120 % this.targets.length | 0   (0-based)
TeleportIndex(t, n) == (t \div TELEPORT_PERIOD) % n

\* the latest position kept as the personal best whatever its fitness
KeepBest_Latest(mem, a, currentFitness) ==
    [personalBestX |-> a.x, personalBestY |-> a.y, personalBestFitness |-> currentFitness]

\* update personal best: only a strictly smaller fitness replaces the record
KeepBest(mem, a, currentFitness) ==
    IF currentFitness < mem.personalBestFitness
    THEN [personalBestX |-> a.x, personalBestY |-> a.y,
          personalBestFitness |-> currentFitness]
    ELSE mem

\* an iteration that compares the global best with new records only
ParticleStep_NewOnly(s, a) ==
    LET fit == Fitness(s.targets, a.x, a.y)
        fresh == a.id \notin DOMAIN s.particles
        p1 == IF fresh
              THEN PutParticle(s.particles, a.id,
                       [personalBestX |-> a.x, personalBestY |-> a.y,
                        personalBestFitness |-> fit])
              ELSE s.particles
        g1 == IF fresh /\ fit < s.globalBestFitness THEN fit ELSE s.globalBestFitness
        mem == KeepBest(p1[a.id], a, fit)
    IN  [s EXCEPT !.particles = PutParticle(p1, a.id, mem),
                  !.globalBestFitness = g1,
                  !.improved = IF mem # p1[a.id] THEN @ \cup {a.id} ELSE @]

\* the memory part of one iteration of the agent loop
ParticleStep(s, a) ==
    LET fit == Fitness(s.targets, a.x, a.y)
        fresh == a.id \notin DOMAIN s.particles
        p1 == IF fresh
              THEN PutParticle(s.particles, a.id,
                       [personalBestX |-> a.x, personalBestY |-> a.y,
                        personalBestFitness |-> fit])
              ELSE s.particles
        g1 == IF fresh /\ fit < s.globalBestFitness THEN fit ELSE s.globalBestFitness
        mem == KeepBest(p1[a.id], a, fit)
        g2 == IF fit < g1 THEN fit ELSE g1
    IN  [s EXCEPT !.particles = PutParticle(p1, a.id, mem),
                  !.globalBestFitness = g2,
                  !.improved = IF mem # p1[a.id] THEN @ \cup {a.id} ELSE @]

RECURSIVE ParticleLoop(_, _, _)
ParticleLoop(s, ags, i) ==
    IF i > Len(ags) THEN s ELSE ParticleLoop(ParticleStep(s, ags[i]), ags, i + 1)

\* PSOAlgorithm.tick on the agents ags, with rnd the target state the teleport
\* block draws: the targets, the memory and the global best
SwarmUpdate(s, ags, rnd) ==
    LET s0 == IF s.initialized THEN s ELSE PsoInit(s, s.world)
        t == s0.tickCount + 1
        moved == [i \in DOMAIN s0.targets |-> MoveTarget(s0.targets[i], s0.world)]
        due == t % TELEPORT_PERIOD = 0
        idx == TeleportIndex(t, Len(moved))
        s1 == [s0 EXCEPT
                 !.tickCount = t,
                 !.targets = IF due THEN [moved EXCEPT ![idx + 1] = rnd] ELSE moved,
                 !.particles = IF due THEN NoParticles ELSE @,
                 !.globalBestFitness = IF due THEN Infinity ELSE @,
                 !.moved = moved,
                 !.draw = IF due THEN rnd ELSE << >>,
                 !.lost = IF due THEN DOMAIN s0.particles ELSE {},
                 !.improved = {},
                 !.ags = ags]
        s2 == [s1 EXCEPT !.mid = [particles |-> s1.particles,
                                  globalBestFitness |-> s1.globalBestFitness]]
    IN  ParticleLoop(s2, ags, 1)


\* no velocity update run yet.  Of the update run last: kind is the strategy, v
\* the agent's velocity, push the drawn force (or velocity contribution), pos the
\* agent's position, mode the ant's mode when the speed is chosen, began the
\* mode its update started from, vel the agent's velocity after it, ticks the
\* number of updates run, limited whether limit scaled the velocity and bounced whether
\* a wall turned it
NoMotion ==
    [kind |-> "none", maxSpeed |-> 0, maxForce |-> 0,
     v |-> [x |-> 0, y |-> 0], push |-> [x |-> 0, y |-> 0],
     pos |-> [x |-> 0, y |-> 0], mode |-> "none", began |-> "none",
     vel |-> [x |-> 0, y |-> 0], ticks |-> 0, limited |-> FALSE,
     bounced |-> FALSE,
     world |-> [w |-> 0, h |-> 0], speedMultiplier |-> 1, targets |-> << >>,
     clamped |-> [x |-> 0, y |-> 0], out |-> [x |-> 0, y |-> 0], state |-> Active]

MotionIdle == motion = NoMotion

\* ------------------------------------------------------------------ store
\* if (nextHistory.length > 300) nextHistory.shift()
HISTORY_CAP == 300

\* the store as created.  sent is what the action run last (last) posted to the
\* worker, received the tick of the TICK event received last; toWorker holds
\* the messages posted to the worker that it has not handled yet and toStore
\* the events the worker posted that the UI thread has not handled yet, both
\* in posting order; back tells that the user's last action was a stepBack
\* that rolled the population back, and rolled is the population it restored
NoStore ==
    [worker |-> FALSE, agents |-> << >>, tick |-> 0, status |-> "stopped",
     agentsHistory |-> << >>, sent |-> << >>, last |-> "none", received |-> 0,
     toWorker |-> << >>, toStore |-> << >>, back |-> FALSE, rolled |-> << >>]

StoreIdle == store = NoStore

\* the newest entry dropped from a history over the cap
CapHistory_Newest(h) == IF Len(h) > HISTORY_CAP THEN SubSeq(h, 1, Len(h) - 1) ELSE h

\* nextHistory.shift() on a history over the cap
CapHistory(h) == IF Len(h) > HISTORY_CAP THEN Tail(h) ELSE h

\* worker?.postMessage: nothing is posted without a worker
Posted(st, msgs) == IF st.worker THEN msgs ELSE << >>

\* setAgents(agents, tick)
SetAgents(st, ags, t) ==
    [st EXCEPT !.agents = ags, !.tick = t,
               !.agentsHistory = CapHistory(Append(st.agentsHistory, ags)),
               !.sent = << >>, !.last = "setAgents"]

\* a stepBack that lowers the tick without the floor at 0
StepBack_NoFloor(st) ==
    IF Len(st.agentsHistory) <= 1
    THEN [st EXCEPT !.sent = << >>, !.last = "stepBack"]
    ELSE LET newHistory == SubSeq(st.agentsHistory, 1, Len(st.agentsHistory) - 1)
             previousState == newHistory[Len(newHistory)]
         IN  [st EXCEPT !.agents = previousState,
                        !.agentsHistory = newHistory,
                        !.tick = st.tick - 1,
                        !.status = "paused",
                        !.sent = Posted(st, <<[type |-> "SET_AGENTS", agents |-> previousState],
                                              [type |-> "PAUSE"]>>),
                        !.last = "stepBack"]

\* stepBack
StepBack(st) ==
    IF Len(st.agentsHistory) <= 1
    THEN [st EXCEPT !.sent = << >>, !.last = "stepBack"]
    ELSE LET newHistory == SubSeq(st.agentsHistory, 1, Len(st.agentsHistory) - 1)
             previousState == newHistory[Len(newHistory)]
         IN  [st EXCEPT !.agents = previousState,
                        !.agentsHistory = newHistory,
                        !.tick = Max(0, st.tick - 1),
                        !.status = "paused",
                        !.sent = Posted(st, <<[type |-> "SET_AGENTS", agents |-> previousState],
                                              [type |-> "PAUSE"]>>),
                        !.last = "stepBack"]

\* play
Play(st) ==
    [st EXCEPT !.status = "running",
               !.sent = Posted(st, <<[type |-> "PLAY"]>>), !.last = "play"]

\* pause
Pause(st) ==
    [st EXCEPT !.status = "paused",
               !.sent = Posted(st, <<[type |-> "PAUSE"]>>), !.last = "pause"]

\* step
Step(st) ==
    [st EXCEPT !.status = "paused",
               !.sent = Posted(st, <<[type |-> "STEP"]>>), !.last = "step"]

\* reset
StoreReset(st) ==
    [st EXCEPT !.status = "stopped", !.tick = 0, !.agents = << >>,
               !.agentsHistory = << >>,
               !.sent = Posted(st, <<[type |-> "RESET"]>>), !.last = "reset"]

\* ------------------------------------------------------- foraging: modes
\* AntColonyAlgorithm before its first tick: no world yet, no ant memory
NoAnt == [world |-> [w |-> 0, h |-> 0], has |-> FALSE, mode |-> "search",
          targetFoodIdx |-> -1, stepsSearching |-> 0,
          pos |-> [x |-> 0, y |-> 0], began |-> "none",
          mid |-> [mode |-> "search", targetFoodIdx |-> -1, stepsSearching |-> 0],
          id |-> 0, steer |-> "none"]

AntIdle == ant = NoAnt

\* positions of the foraging unit are in tenths of a world unit, so that the
\* nest and the food sources (fractions of the world size) are integers for
\* world sizes that are multiples of 10
AntScale == 10

\* the fraction pct / 100 of a world size, in tenths of a unit
Frac(size, pct) == (size * pct) \div 10

NEST_RADIUS == 15

\* init: nestX = worldWidth * 0.12, nestY = worldHeight * 0.5
NestOf(world) == [x |-> Frac(world.w, 12), y |-> Frac(world.h, 50)]

\* init: the five food sources
FoodSources(world) ==
    << [x |-> Frac(world.w, 85), y |-> Frac(world.h, 20), radius |-> 25],
       [x |-> Frac(world.w, 80), y |-> Frac(world.h, 80), radius |-> 25],
       [x |-> Frac(world.w, 55), y |-> Frac(world.h, 12), radius |-> 20],
       [x |-> Frac(world.w, 60), y |-> Frac(world.h, 88), radius |-> 20],
       [x |-> Frac(world.w, 45), y |-> Frac(world.h, 50), radius |-> 15] >>

\* dist(agent, food) <= food.radius
AtFood_Inclusive(p, food) ==
    DistSq(p.x, p.y, food.x, food.y) <= (food.radius * AntScale) * (food.radius * AntScale)

\* dist(agent, food) < food.radius
AtFood(p, food) ==
    DistSq(p.x, p.y, food.x, food.y) < (food.radius * AntScale) * (food.radius * AntScale)

\* the food sources the position is inside of (1-based indices)
FoundFood(world, p) ==
    {fi \in 1..Len(FoodSources(world)) : AtFood(p, FoodSources(world)[fi])}

\* nestDist < 15
NearNest(world, p) ==
    DistSq(p.x, p.y, NestOf(world).x, NestOf(world).y)
        < (NEST_RADIUS * AntScale) * (NEST_RADIUS * AntScale)

\* the memory created for an id the strategy has not seen
NewAntMemory == [mode |-> "search", targetFoodIdx |-> -1, stepsSearching |-> 0]

\* if (mem.mode === 'search') { stepsSearching++; first food found: return }
SearchBlock(m, world, p) ==
    IF m.mode # "search" THEN m
    ELSE IF FoundFood(world, p) # {}
         THEN [mode |-> "return",
               targetFoodIdx |-> (CHOOSE fi \in FoundFood(world, p) :
                                     \A fj \in FoundFood(world, p) : fi <= fj) - 1,
               stepsSearching |-> 0]
         ELSE [m EXCEPT !.stepsSearching = @ + 1]

\* the return block of an ant that keeps the remembered food at the nest
ReturnBlock_KeepFood(m, world, p) ==
    IF m.mode # "return" THEN m
    ELSE IF NearNest(world, p)
         THEN [mode |-> "search", targetFoodIdx |-> m.targetFoodIdx, stepsSearching |-> 0]
         ELSE m

\* if (mem.mode === 'return') { ... if (nestDist < 15) search again }
ReturnBlock(m, world, p) ==
    IF m.mode # "return" THEN m
    ELSE IF NearNest(world, p)
         THEN [mode |-> "search", targetFoodIdx |-> -1, stepsSearching |-> 0]
         ELSE m

\* const isExplorer = (agent.id % 10) < 3, for the ids of a population (0 and up)
IsExplorer(id) == (id % 10) < 3

\* isExplorer || mem.stepsSearching <= 50
PureWander_Inclusive(id, steps) == IsExplorer(id) \/ steps <= 50

\* isExplorer || mem.stepsSearching < 50, on the count the search block has
\* already incremented
PureWander(id, steps) == IsExplorer(id) \/ steps < 50

\* what the force of a search step is computed from: nothing when food was
\* found or the ant was returning, the wander angle alone, or the field sampled
\* by senseAndSteerPheromone together with the wander angle
Steer(id, m0, m1) ==
    IF m0.mode # "search" \/ m1.mode # "search" THEN "none"
    ELSE IF PureWander(id, m1.stepsSearching) THEN "wander"
    ELSE "field"

\* the update of one agent at pre-move position p by the strategy's tick, as far
\* as the ant's memory goes; began and mid observe the memory the update started
\* from and the memory between the two blocks, steer what the search block
\* computed the force from
AntUpdate(a, p) ==
    LET m0 == IF a.has
              THEN [mode |-> a.mode, targetFoodIdx |-> a.targetFoodIdx,
                    stepsSearching |-> a.stepsSearching]
              ELSE NewAntMemory
        m1 == SearchBlock(m0, a.world, p)
        m2 == ReturnBlock(m1, a.world, p)
    IN  [world |-> a.world, has |-> TRUE, mode |-> m2.mode,
         targetFoodIdx |-> m2.targetFoodIdx, stepsSearching |-> m2.stepsSearching,
         pos |-> p, began |-> m0.mode, mid |-> m1,
         id |-> a.id, steer |-> Steer(a.id, m0, m1)]

\* ---------------------------------------------------------- emitted state
\* state: AgentState.Active (boids.ts:94)
BoidsState == Active

\* every ant emitted as Active
AntState_Active(mode) == Active

\* state: mem.mode === 'return' ? AgentState.Stuck : AgentState.Active
AntState(mode) == IF mode = "return" THEN Stuck ELSE Active

\* no agent ticked yet.  mem is the ant's memory (foraging), pos the agent's
\* position in tenths of a unit, hist the detector's history of its id, state
\* the state emitted for it on the last tick and prev on the tick before,
\* strategy the state the strategy returned
NoEmit ==
    [kind |-> "none", ticks |-> 0, mem |-> NoAnt, pos |-> [x |-> 0, y |-> 0],
     hist |-> << >>, state |-> Active, prev |-> Active, strategy |-> Active]

EmitIdle == emit = NoEmit

\* simTick on a population of the one agent, which the strategy moves to q:
\* the strategy's tick (the ant's memory updated at the pre-move position, the
\* state set by the strategy), then the detector
EmitUpdate(e, q) ==
    LET mem == IF e.kind = "ants" THEN AntUpdate(e.mem, e.pos) ELSE e.mem
        strategy == IF e.kind = "ants" THEN AntState(mem.mode) ELSE BoidsState
        moved == <<[id |-> 0, x |-> q.x \div AntScale, y |-> q.y \div AntScale,
                    state |-> strategy]>>
        det == Detect([agents |-> moved, hist |-> [id \in {0} |-> e.hist]], 1)
    IN  [e EXCEPT !.ticks = @ + 1, !.mem = mem, !.pos = q, !.hist = det.hist[0],
                  !.prev = e.state, !.strategy = strategy,
                  !.state = det.agents[1].state]

Start == WorkerStart /\ HashIdle /\ AntIdle /\ FieldIdle /\ SwarmIdle /\ MotionIdle /\ StoreIdle /\ EmitIdle

\* ------------------------------------------------ spatial index specification
\* A spatial index rebuilt from agent lists and queried, on a small lattice of
\* positions that spans several cells of either cell size.
MaxHashAgents == 2    \* agents in a list handed to insertAll

HashCoords == {-10, 0, 60}
HashPoints == {[x |-> px, y |-> py] : px \in HashCoords, py \in {0, 60}}
HashCellSizes == {8, 50}
HashRadii == {-60, -10, 0, 10, 70}
HashExcludeIds == {-1, 0}

\* agent lists of up to MaxHashAgents agents with ids 0, 1, ...
HashAgentLists ==
    UNION {{[i \in 1..n |-> Agent(i - 1, ps[i], Active)] : ps \in [1..n -> HashPoints]} :
              n \in 0..MaxHashAgents}

InitHash ==
    /\ WorkerStart
    /\ AntIdle /\ FieldIdle /\ SwarmIdle /\ MotionIdle /\ StoreIdle /\ EmitIdle
    /\ \E cs \in HashCellSizes : hashIndex = [cellSize |-> cs, grid |-> NoGrid]
    /\ hashInput = << >>
    /\ hashQuery = NoQuery

HashRebuild ==
    /\ \E ags \in HashAgentLists :
          /\ hashIndex' = HashInsertAll(hashIndex, ags)
          /\ hashInput' = ags
    /\ hashQuery' = NoQuery
    /\ UNCHANGED <<workerVars, ant, field, swarm, motion, store, emit>>

HashQuery ==
    /\ \E p \in HashPoints, radius \in HashRadii, ex \in HashExcludeIds :
          hashQuery' = [asked |-> TRUE, x |-> p.x, y |-> p.y, radius |-> radius,
                        excludeId |-> ex,
                        result |-> QueryRadius(hashIndex, p.x, p.y, radius, ex)]
    /\ UNCHANGED <<workerVars, hashIndex, hashInput, ant, field, swarm, motion, store, emit>>

NextHash ==
    \/ HashRebuild
    \/ HashQuery

SpecHash == InitHash /\ [][NextHash]_vars

\* ------------------------------------------------- protocol specification
\* The run loop under every interleaving of INIT, SET_AGENTS, PLAY, PAUSE, STEP,
\* RESET and the callbacks of pending timers.
LoopConfigs == {[algorithm |-> Boids, agentCount |-> 1, neighborRadius |-> 60]}

LoopAgentLists == {<< >>, <<Agent(0, P8, Stuck)>>}

Init == Start

\* a tick may still be executed within the run's bound
MayTick == Initialized => executed < MaxTicks

MsgINIT ==
    \E cfg \in LoopConfigs, ags \in LoopAgentLists, obs \in {<< >>} :
        \E pts \in SpawnPoints(cfg.agentCount) :
            OnINIT(cfg, ags, obs, pts) /\ UNCHANGED <<cmds, prior, unitVars>>

MsgSET_AGENTS == \E ags \in LoopAgentLists \ {<< >>} : OnSET_AGENTS(ags) /\ UNCHANGED <<cmds, prior, unitVars>>

MsgPLAY ==
    /\ MayTick
    /\ Cardinality(timers) < MaxTimers
    /\ \E outc \in Outcomes(agents, algorithm.kind, {0, 8}) : OnPLAY(outc) /\ UNCHANGED <<cmds, prior, unitVars>>

MsgPAUSE == OnPAUSE /\ UNCHANGED <<cmds, prior, unitVars>>

MsgSTEP ==
    /\ MayTick
    /\ \E outc \in Outcomes(agents, algorithm.kind, {0, 8}) : OnSTEP(outc) /\ UNCHANGED <<cmds, prior, unitVars>>

MsgRESET ==
    \E cfg \in LoopConfigs : \E pts \in SpawnPoints(cfg.agentCount) :
        OnRESET(cfg, pts) /\ UNCHANGED <<cmds, prior, unitVars>>

TimerFires ==
    /\ running => MayTick
    /\ \E t \in timers : \E outc \in Outcomes(agents, algorithm.kind, {0, 8}) :
           OnTimer(t, outc) /\ UNCHANGED <<cmds, prior, unitVars>>

Next ==
    \/ MsgINIT
    \/ MsgSET_AGENTS
    \/ MsgPLAY
    \/ MsgPAUSE
    \/ MsgSTEP
    \/ MsgRESET
    \/ TimerFires

Spec == Init /\ [][Next]_vars

\* -------------------------------------------- configuration specification
\* INIT, reconfiguration, obstacle updates and RESET around a run loop
\* that a caller starts only when it is stopped.
MaxTicksC == 2    \* ticks executed in a run of the configuration specification

CfgConfigs ==
    {[algorithm |-> PSO, agentCount |-> 1, neighborRadius |-> 60],
     [algorithm |-> Boids, agentCount |-> 2, neighborRadius |-> 100]}

\* Partial<SimConfig>: any subset of the fields, each with a value of its type
CfgPartials ==
    {[f \in S |-> c[f]] :
        c \in CfgConfigs \cup {[algorithm |-> PSO, agentCount |-> 2, neighborRadius |-> 0]},
        S \in SUBSET Fields}

CfgSpawnPoints(n) == {[i \in 1..n |-> P0]}

CfgMayTick == Initialized => executed < MaxTicksC

CfgINIT ==
    \E cfg \in CfgConfigs, obs \in ObstacleLists :
        \E pts \in CfgSpawnPoints(cfg.agentCount) :
            OnINIT(cfg, << >>, obs, pts) /\ UNCHANGED <<cmds, prior, unitVars>>

CfgUPDATE_CONFIG == \E p \in CfgPartials : OnUPDATE_CONFIG(p) /\ UNCHANGED <<cmds, prior, unitVars>>

CfgUPDATE_OBSTACLES == \E obs \in ObstacleLists : OnUPDATE_OBSTACLES(obs) /\ UNCHANGED <<cmds, prior, unitVars>>

CfgPLAY ==
    /\ CfgMayTick
    /\ ~running
    /\ \E outc \in Outcomes(agents, algorithm.kind, {8}) : OnPLAY(outc) /\ UNCHANGED <<cmds, prior, unitVars>>

CfgPAUSE == OnPAUSE /\ UNCHANGED <<cmds, prior, unitVars>>

CfgSTEP ==
    /\ CfgMayTick
    /\ \E outc \in Outcomes(agents, algorithm.kind, {8}) : OnSTEP(outc) /\ UNCHANGED <<cmds, prior, unitVars>>

CfgRESET ==
    \E cfg \in CfgConfigs : \E pts \in CfgSpawnPoints(cfg.agentCount) :
        OnRESET(cfg, pts) /\ UNCHANGED <<cmds, prior, unitVars>>

CfgTimer ==
    /\ running => CfgMayTick
    /\ \E t \in timers : \E outc \in Outcomes(agents, algorithm.kind, {8}) :
           OnTimer(t, outc) /\ UNCHANGED <<cmds, prior, unitVars>>

NextConfig ==
    \/ CfgINIT
    \/ CfgUPDATE_CONFIG
    \/ CfgUPDATE_OBSTACLES
    \/ CfgPLAY
    \/ CfgPAUSE
    \/ CfgSTEP
    \/ CfgRESET
    \/ CfgTimer

SpecConfig == Start /\ [][NextConfig]_vars

\* ------------------------------------------------- detector specification
\* One agent ticked through the anomaly window, with the commands that install
\* a population (INIT, SET_AGENTS, RESET) arriving at any point of the run.
MoveTicks == 2    \* ticks after its installation during which the agent still moves

DetConfig == [algorithm |-> Boids, agentCount |-> 1, neighborRadius |-> 60]

DetAgentLists == {<<Agent(0, P0, Active)>>, <<Agent(0, P8, Active)>>}

DetINIT ==
    /\ cmds < MaxCmdsD
    /\ cmds' = cmds + 1
    /\ UNCHANGED <<prior, unitVars>>
    /\ \E pts \in SpawnPoints(1) : OnINIT(DetConfig, << >>, << >>, pts)

DetSET_AGENTS ==
    /\ cmds < MaxCmdsD
    /\ cmds' = cmds + 1
    /\ UNCHANGED <<prior, unitVars>>
    /\ \E ags \in DetAgentLists : OnSET_AGENTS(ags)

DetRESET ==
    /\ cmds < MaxCmdsD
    /\ cmds' = cmds + 1
    /\ UNCHANGED <<prior, unitVars>>
    /\ \E pts \in SpawnPoints(1) : OnRESET(DetConfig, pts)

DetSTEP ==
    /\ Initialized
    /\ executed < MaxTicksD
    /\ \E outc \in Outcomes(agents, algorithm.kind, IF age < MoveTicks THEN {0, 8} ELSE {0}) :
           OnSTEP(outc) /\ UNCHANGED <<cmds, prior, unitVars>>

NextDetector ==
    \/ DetINIT
    \/ DetSET_AGENTS
    \/ DetRESET
    \/ DetSTEP

SpecDetector == Start /\ [][NextDetector]_vars

\* ------------------------------------------------- strategy specification
\* One agent under every selector: INIT, reconfiguration, RESET and single
\* ticks, with the instance each of them replaced kept for observation.
MaxTicksS == 3    \* ticks executed in a run of the strategy specification

StrConfigs == {[algorithm |-> a, agentCount |-> 1, neighborRadius |-> 60] : a \in AlgorithmType}

StrPartials == {[algorithm |-> a] : a \in AlgorithmType} \cup {[agentCount |-> 2]}

StrINIT ==
    /\ \E cfg \in StrConfigs, ags \in LoopAgentLists, obs \in ObstacleLists :
           OnINIT(cfg, ags, obs, <<P0>>)
    /\ prior' = algorithm
    /\ UNCHANGED <<cmds, unitVars>>

StrUPDATE_CONFIG ==
    /\ \E p \in StrPartials : OnUPDATE_CONFIG(p)
    /\ prior' = algorithm
    /\ UNCHANGED <<cmds, unitVars>>

StrRESET ==
    /\ \E cfg \in StrConfigs : OnRESET(cfg, <<P0>>)
    /\ prior' = algorithm
    /\ UNCHANGED <<cmds, unitVars>>

StrSTEP ==
    /\ Initialized
    /\ executed < MaxTicksS
    /\ \E outc \in Outcomes(agents, algorithm.kind, {8}) : OnSTEP(outc)
    /\ UNCHANGED <<cmds, prior, unitVars>>

StrSET_DEBUG ==
    /\ \E enabled \in BOOLEAN : OnSET_DEBUG(enabled)
    /\ UNCHANGED <<cmds, prior, unitVars>>

NextStrategy ==
    \/ StrINIT
    \/ StrSET_DEBUG
    \/ StrUPDATE_CONFIG
    \/ StrRESET
    \/ StrSTEP

SpecStrategy == Start /\ [][NextStrategy]_vars

\* ------------------------------------------------ foraging mode specification
\* One ant updated tick after tick at positions inside, on the edge of and
\* outside the food sources and the nest, in the default world and in a world
\* small enough for a food source to overlap the nest.
MaxSteps == 8    \* stepsSearching of the ant in a run of the foraging mode specification

AntWorlds == {[w |-> 1200, h |-> 800], [w |-> 100, h |-> 100], [w |-> 50, h |-> 50]}

\* pre-move positions: inside, on the edge of and outside food sources and nest
AntPoints(world) ==
    IF world.w = 1200
    THEN {[x |-> 10200, y |-> 1600], [x |-> 10450, y |-> 1600],
          [x |-> 1540, y |-> 4000], [x |-> 1590, y |-> 4000],
          [x |-> 6000, y |-> 4000], [x |-> 9600, y |-> 6400]}
    ELSE IF world.w = 100
    THEN {[x |-> 700, y |-> 160], [x |-> 120, y |-> 500], [x |-> 500, y |-> 500],
          [x |-> 600, y |-> 500], [x |-> 270, y |-> 500], [x |-> 0, y |-> 0]}
    ELSE {[x |-> 140, y |-> 250], [x |-> 350, y |-> 250], [x |-> 0, y |-> 0],
          [x |-> 60, y |-> 250], [x |-> 275, y |-> 60]}

InitAnt ==
    /\ WorkerStart
    /\ HashIdle /\ FieldIdle /\ SwarmIdle /\ MotionIdle /\ StoreIdle /\ EmitIdle
    /\ \E world \in AntWorlds : ant = [NoAnt EXCEPT !.world = world]

AntTick ==
    /\ ant.stepsSearching < MaxSteps
    /\ \E p \in AntPoints(ant.world) : ant' = AntUpdate(ant, p)
    /\ UNCHANGED <<workerVars, hashVars, field, swarm, motion, store, emit>>

NextAnt == AntTick

SpecAnt == InitAnt /\ [][NextAnt]_vars

\* ---------------------------------------------- foraging search specification
\* One ant of the default world, explorer or not by its id, searching for up to
\* MaxSearchSteps steps an episode, finding food, returning and searching again.
MaxSearchSteps == 52   \* stepsSearching of the ant in a run of the search specification

SearchWorld == [w |-> 1200, h |-> 800]

SearchIds == {0, 2, 3, 9, 12, 13}

\* pre-move positions: inside a food source, at the nest, in the open
SearchPoints ==
    {[x |-> 10200, y |-> 1600], [x |-> 1540, y |-> 4000], [x |-> 6000, y |-> 4000]}

InitSearch ==
    /\ WorkerStart
    /\ HashIdle /\ FieldIdle /\ SwarmIdle /\ MotionIdle /\ StoreIdle /\ EmitIdle
    /\ \E id \in SearchIds : ant = [NoAnt EXCEPT !.world = SearchWorld, !.id = id]

SearchTick ==
    /\ ant.stepsSearching < MaxSearchSteps
    /\ \E p \in SearchPoints : ant' = AntUpdate(ant, p)
    /\ UNCHANGED <<workerVars, hashVars, field, swarm, motion, store, emit>>

NextSearch == SearchTick

SpecSearch == InitSearch /\ [][NextSearch]_vars

\* ------------------------------------------------ pheromone field specification
\* The field of a 24 x 8 world (3 x 1 cells of size 8): deposits by up to
\* MaxAnts returning ants per tick during the first MaxDepositTicks ticks, then
\* evaporation and diffusion alone.
MaxAnts == 4           \* returning ants that deposit in one tick
MaxDepositTicks == 2   \* ticks of a run in which ants deposit
MaxQuiet == 1012       \* ticks without deposit in a run

\* init: gridCols = ceil(worldWidth / 8), gridRows = ceil(worldHeight / 8), all zero
InitField ==
    /\ WorkerStart
    /\ HashIdle /\ AntIdle /\ SwarmIdle /\ MotionIdle /\ StoreIdle /\ EmitIdle
    /\ field = [cols |-> 3, rows |-> 1, grid |-> <<0, 0, 0>>, tickCount |-> 0, quiet |-> 0,
                pLevel |-> 0]

FieldDepositTick ==
    /\ field.tickCount < MaxDepositTicks
    /\ \E n \in 1..MaxAnts : field' = FieldUpdate(field, n)
    /\ UNCHANGED <<workerVars, hashVars, ant, swarm, motion, store, emit>>

FieldQuietTick ==
    /\ field.quiet < MaxQuiet
    /\ field' = FieldUpdate(field, 0)
    /\ UNCHANGED <<workerVars, hashVars, ant, swarm, motion, store, emit>>

NextField ==
    \/ FieldDepositTick
    \/ FieldQuietTick

SpecField == InitField /\ [][NextField]_vars

\* ------------------------------------------- swarm optimization specification
\* One strategy instance ticked MaxSwarmTicks times in one of two worlds,
\* through three teleports.  Within SwarmWindow ticks of a multiple of the
\* teleport period the agent list handed to tick is any of SwarmAgentLists
\* (agents come, go and jump); on the ticks in between it is SwarmSteadyList.
MaxSwarmTicks == 362   \* ticks of a run of the swarm-optimization specification
SwarmWindow == 3       \* ticks either side of a teleport on which the agent list varies

SwarmWorlds == {[w |-> 1200, h |-> 800], [w |-> 1000, h |-> 1000]}

SwarmSteadyList ==
    <<[id |-> 0, x |-> 9000, y |-> 6000], [id |-> 1, x |-> 6000, y |-> 1000]>>

\* the agent lists handed to tick: none, agent 0 alone, and agents 0 and 1
SwarmAgentLists ==
    {<< >>, <<[id |-> 0, x |-> 3000, y |-> 2500]>>, SwarmSteadyList}

\* the agent lists tick may be handed on its t-th call
SwarmListsAt(t) ==
    IF t % TELEPORT_PERIOD <= SwarmWindow
       \/ t % TELEPORT_PERIOD >= TELEPORT_PERIOD - SwarmWindow
    THEN SwarmAgentLists
    ELSE {SwarmSteadyList}

\* 80 + random * (world - 160) and a velocity of speed 1.5 .. 3.5
TeleportDraws(world) ==
    {[x |-> 800, y |-> 800, vx |-> 15, vy |-> 0],
     [x |-> world.w * SwarmScale - 801, y |-> world.h * SwarmScale - 801,
      vx |-> 0, vy |-> -35]}

InitSwarm ==
    /\ WorkerStart
    /\ HashIdle /\ AntIdle /\ FieldIdle /\ MotionIdle /\ StoreIdle /\ EmitIdle
    /\ \E world \in SwarmWorlds : swarm = [NoSwarm EXCEPT !.world = world]

\* a tick that does not reach the teleport block draws nothing
SwarmTick ==
    /\ swarm.tickCount < MaxSwarmTicks
    /\ (swarm.tickCount + 1) % TELEPORT_PERIOD # 0
    /\ \E ags \in SwarmListsAt(swarm.tickCount + 1) :
           swarm' = SwarmUpdate(swarm, ags, << >>)
    /\ UNCHANGED <<workerVars, hashVars, ant, field, motion, store, emit>>

SwarmTeleportTick ==
    /\ swarm.tickCount < MaxSwarmTicks
    /\ (swarm.tickCount + 1) % TELEPORT_PERIOD = 0
    /\ \E ags \in SwarmListsAt(swarm.tickCount + 1), rnd \in TeleportDraws(swarm.world) :
           swarm' = SwarmUpdate(swarm, ags, rnd)
    /\ UNCHANGED <<workerVars, hashVars, ant, field, motion, store, emit>>

NextSwarm ==
    \/ SwarmTick
    \/ SwarmTeleportTick

SpecSwarm == InitSwarm /\ [][NextSwarm]_vars

\* --------------------------------------------------- swarm targets specification
\* The same ticks in the default world, in the smallest world the teleport
\* range is made for (160 x 160) and in a world narrower than the margins.
TargetWorlds == {[w |-> 1200, h |-> 800], [w |-> 160, h |-> 160], [w |-> 30, h |-> 800]}

InitTargets ==
    /\ WorkerStart
    /\ HashIdle /\ AntIdle /\ FieldIdle /\ MotionIdle /\ StoreIdle /\ EmitIdle
    /\ \E world \in TargetWorlds : swarm = [NoSwarm EXCEPT !.world = world]

SpecTargets == InitTargets /\ [][NextSwarm]_vars

\* ------------------------------------------------------- velocity updates
\* velocities, forces and speeds of the velocity unit are in thousandths of a
\* world unit per tick, its positions in thousandths of a world unit.  The code
\* rounds the result of every division, multiplication and square root to the
\* nearest double; the unit rounds each to the nearest thousandth.
MotionScale == 1000

\* a / b rounded to the nearest integer (b > 0)
RoundDiv(a, b) == (2 * a + b) \div (2 * b)

\* floor of the square root, by bisection of lo..hi
RECURSIVE SqrtBetween(_, _, _)
SqrtBetween(n, lo, hi) ==
    IF lo >= hi THEN lo
    ELSE LET mid == (lo + hi + 1) \div 2
         IN  IF mid * mid <= n THEN SqrtBetween(n, mid, hi)
             ELSE SqrtBetween(n, lo, mid - 1)

Sqrt(n) == SqrtBetween(n, 0, Min(n, 46340))

\* Math.sqrt: the square root rounded to the nearest integer
RoundSqrt(n) == LET r == Sqrt(n) IN IF n - r * r > r THEN r + 1 ELSE r

MagSq(v) == v.x * v.x + v.y * v.y

\* limit: a vector longer than max is divided by its length and multiplied by
\* max, any other returned as it is
Limit(v, max) ==
    IF MagSq(v) > max * max
    THEN LET m == RoundSqrt(MagSq(v))
         IN  [x |-> RoundDiv(RoundDiv(v.x * MotionScale, m) * max, MotionScale),
              y |-> RoundDiv(RoundDiv(v.y * MotionScale, m) * max, MotionScale)]
    ELSE v

\* v * (pct / 100)
Scaled(v, pct) == [x |-> RoundDiv(v.x * pct, 100), y |-> RoundDiv(v.y * pct, 100)]

VAdd(a, b) == [x |-> a.x + b.x, y |-> a.y + b.y]

Abs(n) == IF n < 0 THEN -n ELSE n

\* Flocking: force = limit(force, maxForce); vel = limit(v + force, maxSpeed)
BoidsVelocity(v, force, maxForce, maxSpeed) ==
    Limit(VAdd(v, Limit(force, maxForce)), maxSpeed)

\* Swarm-Optimization: inertia 0.75 plus the cognitive, target, noise and
\* obstacle terms (push), before the limit
PsoRawVelocity(v, push) == VAdd(Scaled(v, 75), push)

\* wall bounce on one axis with the velocity negated at a wall
BounceAxis_Negate(p, vel, size, speedMultiplier) ==
    LET q == p + vel * speedMultiplier
    IN  IF q < 10 * MotionScale \/ q > size - 10 * MotionScale THEN -vel ELSE vel

\* wall bounce on one axis: the velocity points inwards at a wall
BounceAxis(p, vel, size, speedMultiplier) ==
    LET q == p + vel * speedMultiplier
        lo == IF q < 10 * MotionScale THEN Abs(vel) ELSE vel
        q1 == IF q < 10 * MotionScale THEN 10 * MotionScale ELSE q
    IN  IF q1 > size - 10 * MotionScale THEN -Abs(lo) ELSE lo

\* vel = limit(newV, maxSpeed), then the wall bounce
PsoVelocity(v, push, pos, world, maxSpeed, speedMultiplier) ==
    LET vel == Limit(PsoRawVelocity(v, push), maxSpeed)
    IN  [x |-> BounceAxis(pos.x, vel.x, world.w * MotionScale, speedMultiplier),
         y |-> BounceAxis(pos.y, vel.y, world.h * MotionScale, speedMultiplier)]

\* speed = mem.mode === 'return' ? maxSpeed * 0.8 : maxSpeed * 0.6
AntSpeed(mode, maxSpeed) ==
    IF mode = "return" THEN RoundDiv(maxSpeed * 8, 10) ELSE RoundDiv(maxSpeed * 6, 10)

\* Foraging: force = limit(force, maxForce * 3); 80% of the velocity plus the force
AntRawVelocity(v, force, maxForce) == VAdd(Scaled(v, 80), Limit(force, maxForce * 3))

\* vel = limit(newV, speed), with the mode the two mode blocks left
AntVelocity(v, force, mode, maxForce, maxSpeed) ==
    Limit(AntRawVelocity(v, force, maxForce), AntSpeed(mode, maxSpeed))

\* --------------------------------------------------- velocity specification
\* One agent ticked again and again by one strategy under one configuration:
\* every tick takes the velocity the tick before emitted (the first a velocity
\* below, at or far above the caps) and a drawn force.
MaxMoves == 2    \* ticks of a run of the velocity specification

MotionSpeeds == {0, 2500, 3000}     \* config.maxSpeed: 0, 2.5, 3
MotionForces == {150, 500}          \* config.maxForce: 0.15, 0.5

MotionVelocities ==
    {[x |-> 0, y |-> 0], [x |-> 200, y |-> 0], [x |-> 0, y |-> -4000],
     [x |-> 3000, y |-> 4000], [x |-> -2400, y |-> -3200], [x |-> -6000, y |-> 8000],
     [x |-> 1800, y |-> 0], [x |-> 2000, y |-> 3000]}

MotionPushes ==
    {[x |-> 0, y |-> 0], [x |-> 0, y |-> 150], [x |-> 90, y |-> 120],
     [x |-> 300, y |-> 400], [x |-> -3000, y |-> -4000], [x |-> 2000, y |-> 0],
     [x |-> -9000, y |-> 0]}

MotionWorld == [w |-> 1200, h |-> 800]

\* in the open, next to the left wall, next to the right and the bottom wall
MotionPositions ==
    {[x |-> 600000, y |-> 400000], [x |-> 11000, y |-> 400000],
     [x |-> 1189000, y |-> 789000]}

\* the memory of the ant of the velocity unit as the foraging unit holds it
\* (stepsSearching, which no speed depends on, is not carried along)
MotionAnt ==
    [NoAnt EXCEPT !.world = MotionWorld, !.has = motion.mode # "none",
                  !.mode = IF motion.mode = "return" THEN "return" ELSE "search"]

\* the agent as spawned or handed in: any velocity, no tick run yet
InitMotion ==
    /\ WorkerStart
    /\ HashIdle /\ AntIdle /\ FieldIdle /\ SwarmIdle /\ StoreIdle /\ EmitIdle
    /\ \E kind \in {"boids", "pso", "ants"}, v \in MotionVelocities,
          maxForce \in MotionForces, maxSpeed \in MotionSpeeds :
          motion = [NoMotion EXCEPT !.kind = kind, !.maxSpeed = maxSpeed,
                                    !.maxForce = maxForce, !.vel = v]

BoidsMove ==
    /\ motion.kind = "boids"
    /\ motion.ticks < MaxMoves
    /\ \E force \in MotionPushes :
          /\ motion' = [motion EXCEPT
                 !.v = motion.vel, !.push = force, !.ticks = @ + 1,
                 !.vel = BoidsVelocity(motion.vel, force, motion.maxForce, motion.maxSpeed),
                 !.limited = MagSq(VAdd(motion.vel, Limit(force, motion.maxForce)))
                                 > motion.maxSpeed * motion.maxSpeed]
    /\ UNCHANGED <<workerVars, hashVars, ant, field, swarm, store, emit>>

PsoMove ==
    /\ motion.kind = "pso"
    /\ motion.ticks < MaxMoves
    /\ \E push \in MotionPushes, pos \in MotionPositions :
          /\ motion' = [motion EXCEPT
                 !.v = motion.vel, !.push = push, !.pos = pos, !.ticks = @ + 1,
                 !.vel = PsoVelocity(motion.vel, push, pos, MotionWorld, motion.maxSpeed, 1),
                 !.limited = MagSq(PsoRawVelocity(motion.vel, push))
                                 > motion.maxSpeed * motion.maxSpeed,
                 !.bounced = PsoVelocity(motion.vel, push, pos, MotionWorld,
                                         motion.maxSpeed, 1)
                                 # Limit(PsoRawVelocity(motion.vel, push), motion.maxSpeed)]
    /\ UNCHANGED <<workerVars, hashVars, ant, field, swarm, store, emit>>

\* the ant's memory is updated at its pre-move position before its speed is chosen
AntMove ==
    /\ motion.kind = "ants"
    /\ motion.ticks < MaxMoves
    /\ \E force \in MotionPushes, p \in AntPoints(MotionWorld) :
          LET a == AntUpdate(MotionAnt, p)
          IN  motion' = [motion EXCEPT
                     !.v = motion.vel, !.push = force, !.ticks = @ + 1,
                     !.pos = [x |-> p.x * 100, y |-> p.y * 100],
                     !.mode = a.mode, !.began = a.began,
                     !.vel = AntVelocity(motion.vel, force, a.mode,
                                         motion.maxForce, motion.maxSpeed),
                     !.limited = MagSq(AntRawVelocity(motion.vel, force, motion.maxForce))
                                     > AntSpeed(a.mode, motion.maxSpeed)
                                           * AntSpeed(a.mode, motion.maxSpeed)]
    /\ UNCHANGED <<workerVars, hashVars, ant, field, swarm, store, emit>>

NextMotion ==
    \/ BoidsMove
    \/ PsoMove
    \/ AntMove

SpecMotion == InitMotion /\ [][NextMotion]_vars

\* ------------------------------------------------------ position updates
\* wrap of the upper edge left out
WrapAxis_Low(p, vel, size, speedMultiplier) ==
    LET q == p + vel * speedMultiplier IN IF q < 0 THEN q + size ELSE q

\* Flocking: if (newX < 0) newX += worldWidth; if (newX >= worldWidth) newX -= worldWidth
WrapAxis(p, vel, size, speedMultiplier) ==
    LET q == p + vel * speedMultiplier
        a == IF q < 0 THEN q + size ELSE q
    IN  IF a >= size THEN a - size ELSE a

BoidsPosition(pos, vel, world, speedMultiplier) ==
    [x |-> WrapAxis(pos.x, vel.x, world.w * MotionScale, speedMultiplier),
     y |-> WrapAxis(pos.y, vel.y, world.h * MotionScale, speedMultiplier)]

\* Foraging: newX = Math.max(1, Math.min(worldWidth - 1, newX))
ClampAxis(p, vel, size, speedMultiplier) ==
    Max(MotionScale, Min(size - MotionScale, p + vel * speedMultiplier))

AntPosition(pos, vel, world, speedMultiplier) ==
    [x |-> ClampAxis(pos.x, vel.x, world.w * MotionScale, speedMultiplier),
     y |-> ClampAxis(pos.y, vel.y, world.h * MotionScale, speedMultiplier)]

\* Swarm-Optimization: if (newX < 10) newX = 10; if (newX > worldWidth - 10)
\* newX = worldWidth - 10
HoldAxis(p, vel, size, speedMultiplier) ==
    LET q == p + vel * speedMultiplier
        q1 == IF q < 10 * MotionScale THEN 10 * MotionScale ELSE q
    IN  IF q1 > size - 10 * MotionScale THEN size - 10 * MotionScale ELSE q1

\* the position integrated from the limited velocity, then held at the walls
PsoPosition(pos, vel, world, speedMultiplier) ==
    [x |-> HoldAxis(pos.x, vel.x, world.w * MotionScale, speedMultiplier),
     y |-> HoldAxis(pos.y, vel.y, world.h * MotionScale, speedMultiplier)]

\* nearestTarget: the first target at the least squared distance; the input
\* positions and the targets of the unit are whole tenths of a world unit and
\* the squared distance is taken in tenths
NearestTarget(targets, p) ==
    LET d(i) == DistSq(p.x \div 100, p.y \div 100,
                       targets[i].x \div 100, targets[i].y \div 100)
    IN  targets[CHOOSE i \in 1..Len(targets) :
                    \A j \in 1..Len(targets) : d(i) < d(j) \/ (d(i) = d(j) /\ i <= j)]

\* dist(a, b) < r
Within(a, b, r) ==
    /\ Abs(a.x - b.x) < r
    /\ Abs(a.y - b.y) < r
    /\ (a.y - b.y) * (a.y - b.y) < r * r - (a.x - b.x) * (a.x - b.x)

\* nearTarget ? Stuck : Active, with nearest the target nearest to the pre-move
\* position pos and the distance taken from the emitted position new
PsoState(targets, pos, new) ==
    IF Within(new, NearestTarget(targets, pos), 35 * MotionScale) THEN Stuck ELSE Active

\* --------------------------------------------------- position specification
\* One agent ticked by one strategy in one world at one speed multiplier: every
\* tick takes the velocity the tick before emitted, a drawn force, a drawn
\* position inside the world and, for Swarm-Optimization, drawn targets.
MaxPlaces == 2   \* ticks of a run of the position specification

PlaceWorlds == {[w |-> 1200, h |-> 800], [w |-> 20, h |-> 800], [w |-> 10, h |-> 800]}

PlaceVelocities ==
    {[x |-> 0, y |-> 0], [x |-> 4000, y |-> 0], [x |-> -4000, y |-> 0],
     [x |-> 2400, y |-> 3200]}

PlacePushes == {[x |-> 0, y |-> 0], [x |-> 2000, y |-> 0], [x |-> -2000, y |-> -2000]}

\* between two close targets, in the margins, next to the left wall, in the
\* corners; in a narrow world in the margin and in the corners
PlacePositions(world) ==
    IF world.w = 1200
    THEN {[x |-> 635500, y |-> 400000], [x |-> 5000, y |-> 400000],
          [x |-> 1195000, y |-> 795000], [x |-> 11000, y |-> 400000],
          [x |-> 0, y |-> 0], [x |-> 1199900, y |-> 799900]}
    ELSE {[x |-> 5000, y |-> 400000], [x |-> 0, y |-> 0],
          [x |-> world.w * MotionScale - 100, y |-> 799900]}

\* the targets after their move: spread out, or two of them 72 apart; in a
\* narrow world all held at x = 40
PlaceTargets(world) ==
    IF world.w = 1200
    THEN {<<[x |-> 300000, y |-> 200000], [x |-> 900000, y |-> 600000],
            [x |-> 600000, y |-> 120000]>>,
          <<[x |-> 600000, y |-> 400000], [x |-> 672000, y |-> 400000],
            [x |-> 600000, y |-> 120000]>>}
    ELSE {<<[x |-> 40000, y |-> 200000], [x |-> 40000, y |-> 600000],
            [x |-> 40000, y |-> 120000]>>,
          <<[x |-> 40000, y |-> 400000], [x |-> 40000, y |-> 420000],
            [x |-> 40000, y |-> 120000]>>}

\* the memory of the ant of the position unit as the foraging unit holds it
PlaceAnt ==
    [NoAnt EXCEPT !.world = motion.world, !.has = motion.mode # "none",
                  !.mode = IF motion.mode = "return" THEN "return" ELSE "search"]

InitPlace ==
    /\ WorkerStart
    /\ HashIdle /\ AntIdle /\ FieldIdle /\ SwarmIdle /\ StoreIdle /\ EmitIdle
    /\ \E kind \in {"boids", "pso", "ants"}, v \in PlaceVelocities,
          world \in PlaceWorlds, sm \in {1, 2} :
          motion = [NoMotion EXCEPT !.kind = kind, !.maxSpeed = 3000, !.maxForce = 500,
                                    !.vel = v, !.world = world, !.speedMultiplier = sm]

BoidsPlace ==
    /\ motion.kind = "boids"
    /\ motion.ticks < MaxPlaces
    /\ \E force \in PlacePushes, pos \in PlacePositions(motion.world) :
          LET vel == BoidsVelocity(motion.vel, force, motion.maxForce, motion.maxSpeed)
          IN  motion' = [motion EXCEPT
                     !.v = motion.vel, !.push = force, !.pos = pos, !.ticks = @ + 1,
                     !.clamped = vel, !.vel = vel,
                     !.out = BoidsPosition(pos, vel, motion.world, motion.speedMultiplier),
                     !.state = BoidsState]
    /\ UNCHANGED <<workerVars, hashVars, ant, field, swarm, store, emit>>

PsoPlace ==
    /\ motion.kind = "pso"
    /\ motion.ticks < MaxPlaces
    /\ \E push \in PlacePushes, pos \in PlacePositions(motion.world),
          targets \in PlaceTargets(motion.world) :
          LET vel == Limit(PsoRawVelocity(motion.vel, push), motion.maxSpeed)
              new == PsoPosition(pos, vel, motion.world, motion.speedMultiplier)
          IN  motion' = [motion EXCEPT
                     !.v = motion.vel, !.push = push, !.pos = pos, !.ticks = @ + 1,
                     !.targets = targets, !.clamped = vel,
                     !.vel = PsoVelocity(motion.vel, push, pos, motion.world,
                                         motion.maxSpeed, motion.speedMultiplier),
                     !.out = new,
                     !.state = PsoState(targets, pos, new)]
    /\ UNCHANGED <<workerVars, hashVars, ant, field, swarm, store, emit>>

AntPlace ==
    /\ motion.kind = "ants"
    /\ motion.ticks < MaxPlaces
    /\ \E force \in PlacePushes, pos \in PlacePositions(motion.world) :
          LET a == AntUpdate(PlaceAnt, [x |-> pos.x \div 100, y |-> pos.y \div 100])
              vel == AntVelocity(motion.vel, force, a.mode, motion.maxForce, motion.maxSpeed)
          IN  motion' = [motion EXCEPT
                     !.v = motion.vel, !.push = force, !.pos = pos, !.ticks = @ + 1,
                     !.mode = a.mode, !.began = a.began,
                     !.clamped = vel, !.vel = vel,
                     !.out = AntPosition(pos, vel, motion.world, motion.speedMultiplier),
                     !.state = AntState(a.mode)]
    /\ UNCHANGED <<workerVars, hashVars, ant, field, swarm, store, emit>>

NextPlace ==
    \/ BoidsPlace
    \/ PsoPlace
    \/ AntPlace

SpecPlace == InitPlace /\ [][NextPlace]_vars

\* ------------------------------------------------------- store specification
\* The store fed one population per TICK, MaxStoreTicks in all, with or without
\* a worker attached; the user steps back or resets while the history is within
\* StoreWindow entries of empty or of the cap.
MaxStoreTicks == 303   \* TICK events received in a run of the store specification
StoreWindow == 2       \* distance of the history length from 0 or the cap at which the user acts

InitStore ==
    /\ WorkerStart
    /\ HashIdle /\ AntIdle /\ FieldIdle /\ SwarmIdle /\ MotionIdle /\ EmitIdle
    /\ \E w \in BOOLEAN : store = [NoStore EXCEPT !.worker = w]

UserActs ==
    \/ Len(store.agentsHistory) <= StoreWindow
    \/ Len(store.agentsHistory) >= HISTORY_CAP - StoreWindow

\* the TICK handler of the UI thread: setAgents(msg.agents, msg.tick), with the
\* tick the worker counts (a step back does not rewind it, RESET zeroes it);
\* the population a TICK carries is represented by the number of the TICK
StoreTick ==
    /\ store.received < MaxStoreTicks
    /\ store' = [SetAgents(store, <<store.received + 1>>, store.received + 1)
                    EXCEPT !.received = store.received + 1]
    /\ UNCHANGED <<workerVars, hashVars, ant, field, swarm, motion, emit>>

\* the TICK handler on the TICK of tick 0 that the worker posts for an INIT or
\* a RESET: two of them reach a store that was reset twice in a row
StoreTickZero ==
    /\ store.received = 0
    /\ Len(store.agentsHistory) < StoreWindow
    /\ store' = SetAgents(store, <<0>>, 0)
    /\ UNCHANGED <<workerVars, hashVars, ant, field, swarm, motion, emit>>

StoreStepBack ==
    /\ UserActs
    /\ store' = StepBack(store)
    /\ UNCHANGED <<workerVars, hashVars, ant, field, swarm, motion, emit>>

StoreDoReset ==
    /\ UserActs
    /\ store' = [StoreReset(store) EXCEPT !.received = 0]
    /\ UNCHANGED <<workerVars, hashVars, ant, field, swarm, motion, emit>>

NextStore ==
    \/ StoreTick
    \/ StoreTickZero
    \/ StoreStepBack
    \/ StoreDoReset

SpecStore == InitStore /\ [][NextStore]_vars

\* ----------------------------------------------- emitted state specification
\* One agent of a Flocking or a Foraging population ticked MaxEmitTicks times.
\* It is moved among EmitPoints during its first MoveTicks ticks and again once
\* the detector's window is full, and holds its position in between.
MaxEmitTicks == 42   \* ticks of a run of the emitted state specification

EmitWorld == [w |-> 1200, h |-> 800]

\* inside a food source, inside the nest, in the open (tenths of a unit)
EmitPoints == {[x |-> 10200, y |-> 1600], [x |-> 1540, y |-> 4000], [x |-> 6000, y |-> 4000]}

InitEmit ==
    /\ WorkerStart
    /\ HashIdle /\ AntIdle /\ FieldIdle /\ SwarmIdle /\ MotionIdle /\ StoreIdle
    /\ \E kind \in {"boids", "ants"}, p \in EmitPoints :
          emit = [NoEmit EXCEPT !.kind = kind, !.pos = p,
                                !.mem = [NoAnt EXCEPT !.world = EmitWorld]]

\* a tick that moves the agent
EmitMove ==
    /\ emit.ticks < MaxEmitTicks
    /\ emit.ticks < MoveTicks \/ emit.ticks >= ANOMALY_WINDOW
    /\ \E q \in EmitPoints \ {emit.pos} : emit' = EmitUpdate(emit, q)
    /\ UNCHANGED <<workerVars, hashVars, ant, field, swarm, motion, store>>

\* a tick that leaves the agent where it is
EmitHold ==
    /\ emit.ticks < MaxEmitTicks
    /\ emit' = EmitUpdate(emit, emit.pos)
    /\ UNCHANGED <<workerVars, hashVars, ant, field, swarm, motion, store>>

NextEmit ==
    \/ EmitMove
    \/ EmitHold

SpecEmit == InitEmit /\ [][NextEmit]_vars

\* ------------------------------------------------------- foraging: trails
CELL_SIZE == 8

\* Math.floor(x / this.cellSize) of a coordinate in tenths
CellOf(v) == v \div (CELL_SIZE * AntScale)

\* Math.ceil(size / this.cellSize)
GridSize(size) == (size + CELL_SIZE - 1) \div CELL_SIZE

\* init: a zero grid of ceil(worldWidth / 8) x ceil(worldHeight / 8) cells
FieldInit(world) ==
    [cols |-> GridSize(world.w), rows |-> GridSize(world.h),
     grid |-> [i \in 1..(GridSize(world.w) * GridSize(world.h)) |-> 0],
     tickCount |-> 0, quiet |-> 0, pLevel |-> 0]

\* samplePheromone at a position in tenths
SamplePheromone(f, x, y) ==
    IF CellOf(x) < 0 \/ CellOf(x) >= f.cols \/ CellOf(y) < 0 \/ CellOf(y) >= f.rows
    THEN 0
    ELSE f.grid[CellIndex(f, CellOf(x), CellOf(y))]

\* strength = Math.max(0.5, 3.0 - foodDist * 0.005) in thousandths, foodDist
\* the distance from p to the remembered food source, 100 without one
DepositStrength(m, world, p) ==
    LET foodDist == IF m.targetFoodIdx >= 0
                    THEN LET food == FoodSources(world)[m.targetFoodIdx + 1]
                         IN  RoundSqrt(DistSq(p.x, p.y, food.x, food.y))
                    ELSE 100 * AntScale
    IN  Max(500, 3000 - RoundDiv(foodDist, 2))

\* the field part of AntColonyAlgorithm.tick on one agent at pre-move position
\* p: evaporate, diffuse on every 4th tick, then the deposit of the ant if its
\* memory m after the search block is in return mode, then the level sampled
\* at p for the debug record
TrailUpdate(f, m, world, p) ==
    LET t == f.tickCount + 1
        e == [f EXCEPT !.grid = [i \in 1..(f.cols * f.rows) |-> Evaporate(f.grid[i])]]
        d == IF t % 4 = 0 THEN Diffuse(e) ELSE e
        g == IF m.mode = "return"
             THEN Deposit(d, CellOf(p.x), CellOf(p.y), DepositStrength(m, world, p))
             ELSE d
    IN  [g EXCEPT !.tickCount = t,
                  !.quiet = IF m.mode = "return" THEN 0 ELSE f.quiet + 1,
                  !.pLevel = SamplePheromone(g, p.x, p.y)]

\* ------------------------------------------------ foraging trail specification
\* One ant in a world of 1200 x 10 (150 x 2 cells): for the first TrailWindow
\* ticks the agent handed to tick is at any of TrailPoints, afterwards it sits
\* at the nest while the field evaporates and diffuses.
MaxTrailTicks == 10  \* ticks of a run of the trail specification
TrailWindow == 5     \* first ticks of a run on which the ant's position varies

TrailWorld == [w |-> 1200, h |-> 10]

TrailNest == [x |-> 1440, y |-> 50]

\* pre-move positions in tenths: in the first food source, far from it in the
\* open, in the second row of cells, in the last column, at the nest, left of
\* the grid and below it
TrailPoints ==
    {[x |-> 10200, y |-> 20], [x |-> 4000, y |-> 50], [x |-> 9000, y |-> 100],
     [x |-> 11999, y |-> 50], TrailNest, [x |-> -50, y |-> 50],
     [x |-> 9000, y |-> 170]}

TrailPointsAt(t) == IF t <= TrailWindow THEN TrailPoints ELSE {TrailNest}

InitTrail ==
    /\ WorkerStart
    /\ HashIdle /\ SwarmIdle /\ MotionIdle /\ StoreIdle /\ EmitIdle
    /\ ant = [NoAnt EXCEPT !.world = TrailWorld]
    /\ field = FieldInit(TrailWorld)

TrailTick ==
    /\ field.tickCount < MaxTrailTicks
    /\ \E p \in TrailPointsAt(field.tickCount + 1) :
          /\ ant' = AntUpdate(ant, p)
          /\ field' = TrailUpdate(field, AntUpdate(ant, p).mid, ant.world, p)
    /\ UNCHANGED <<workerVars, hashVars, swarm, motion, store, emit>>

NextTrail == TrailTick

SpecTrail == InitTrail /\ [][NextTrail]_vars

\* ------------------------------------------------------ session specification
\* The store of the UI thread and the worker, joined by the two message
\* channels: the App posts INIT to the worker it attached, the user plays,
\* pauses, steps, steps back and resets once the worker has handled it, the
\* worker handles the posted messages in order, its loop timers fire, and the
\* UI thread hands every TICK event to setAgents in order.
MaxSessionTicks == 3   \* ticks executed in a run of the session specification
MaxInFlight == 2       \* messages waiting in either channel at once

\* the config the store holds: posted with INIT and with every RESET
SessionConfig == [algorithm |-> Boids, agentCount |-> 1, neighborRadius |-> 60]

\* worker?.postMessage: what the action posted joins the worker's queue
Send(st) == [st EXCEPT !.toWorker = @ \o st.sent]

\* if (msg.type === 'TICK'): the events the TICK handler acts on
TickEvents(o) == SelectSeq(o, LAMBDA m : m.type = "TICK")

InitSession ==
    /\ WorkerStart
    /\ HashIdle /\ AntIdle /\ FieldIdle /\ SwarmIdle /\ MotionIdle /\ EmitIdle
    /\ store = [NoStore EXCEPT !.worker = TRUE, !.toWorker = <<[type |-> "INIT"]>>]

\* the user acts on an initialized engine and n more messages fit the queue
UserMay(n) == Initialized /\ Len(store.toWorker) + n <= MaxInFlight

\* a tick may still be executed and its TICK event fits the queue
SessionMayTick == executed < MaxSessionTicks /\ Len(store.toStore) < MaxInFlight

\* the PLAY messages waiting in the worker's queue
WaitingPlays == {i \in DOMAIN store.toWorker : store.toWorker[i].type = "PLAY"}

UserPlay ==
    /\ UserMay(1)
    /\ Cardinality(timers) + Cardinality(WaitingPlays) < MaxTimers
    /\ store' = [Send(Play(store)) EXCEPT !.back = FALSE, !.rolled = << >>]
    /\ UNCHANGED <<workerVars, hashVars, ant, field, swarm, motion, emit>>

UserPause ==
    /\ UserMay(1)
    /\ store' = [Send(Pause(store)) EXCEPT !.back = FALSE, !.rolled = << >>]
    /\ UNCHANGED <<workerVars, hashVars, ant, field, swarm, motion, emit>>

UserStep ==
    /\ UserMay(1)
    /\ store' = [Send(Step(store)) EXCEPT !.back = FALSE, !.rolled = << >>]
    /\ UNCHANGED <<workerVars, hashVars, ant, field, swarm, motion, emit>>

UserReset ==
    /\ UserMay(1)
    /\ store' = [Send(StoreReset(store)) EXCEPT !.back = FALSE, !.rolled = << >>]
    /\ UNCHANGED <<workerVars, hashVars, ant, field, swarm, motion, emit>>

UserStepBack ==
    /\ UserMay(2)
    /\ store' = [Send(StepBack(store)) EXCEPT
                     !.back = Len(store.agentsHistory) > 1,
                     !.rolled = IF Len(store.agentsHistory) > 1
                                THEN StepBack(store).agents ELSE << >>]
    /\ UNCHANGED <<workerVars, hashVars, ant, field, swarm, motion, emit>>

\* the message the worker handles next is of this type
Heads(type) == store.toWorker # << >> /\ Head(store.toWorker).type = type

\* the handled message leaves the worker's queue and the TICK events the
\* handler posted join the queue of the UI thread
Handled == store' = [store EXCEPT !.toWorker = Tail(@), !.toStore = @ \o TickEvents(out')]

SessionINIT ==
    /\ Heads("INIT")
    /\ \E pts \in SpawnPoints(SessionConfig.agentCount) :
           OnINIT(SessionConfig, << >>, << >>, pts)
    /\ Handled
    /\ UNCHANGED <<cmds, prior, hashVars, ant, field, swarm, motion, emit>>

SessionSET_AGENTS ==
    /\ Heads("SET_AGENTS")
    /\ OnSET_AGENTS(Head(store.toWorker).agents)
    /\ Handled
    /\ UNCHANGED <<cmds, prior, hashVars, ant, field, swarm, motion, emit>>

SessionPLAY ==
    /\ Heads("PLAY")
    /\ SessionMayTick
    /\ \E outc \in Outcomes(agents, algorithm.kind, {0, 8}) : OnPLAY(outc)
    /\ Handled
    /\ UNCHANGED <<cmds, prior, hashVars, ant, field, swarm, motion, emit>>

SessionPAUSE ==
    /\ Heads("PAUSE")
    /\ OnPAUSE
    /\ Handled
    /\ UNCHANGED <<cmds, prior, hashVars, ant, field, swarm, motion, emit>>

SessionSTEP ==
    /\ Heads("STEP")
    /\ SessionMayTick
    /\ \E outc \in Outcomes(agents, algorithm.kind, {0, 8}) : OnSTEP(outc)
    /\ Handled
    /\ UNCHANGED <<cmds, prior, hashVars, ant, field, swarm, motion, emit>>

SessionRESET ==
    /\ Heads("RESET")
    /\ Len(store.toStore) < MaxInFlight
    /\ \E pts \in SpawnPoints(SessionConfig.agentCount) : OnRESET(SessionConfig, pts)
    /\ Handled
    /\ UNCHANGED <<cmds, prior, hashVars, ant, field, swarm, motion, emit>>

\* a loop timer fires between two messages
SessionTimer ==
    /\ running => SessionMayTick
    /\ \E t \in timers : \E outc \in Outcomes(agents, algorithm.kind, {0, 8}) :
           OnTimer(t, outc)
    /\ store' = [store EXCEPT !.toStore = @ \o TickEvents(out')]
    /\ UNCHANGED <<cmds, prior, hashVars, ant, field, swarm, motion, emit>>

\* worker.onmessage of the UI thread: setAgents(msg.agents, msg.tick)
StoreReceives ==
    /\ store.toStore # << >>
    /\ store' = [SetAgents(store, Head(store.toStore).agents, Head(store.toStore).tick)
                    EXCEPT !.toStore = Tail(@), !.received = Head(store.toStore).tick]
    /\ UNCHANGED <<workerVars, hashVars, ant, field, swarm, motion, emit>>

NextSession ==
    \/ UserPlay
    \/ UserPause
    \/ UserStep
    \/ UserReset
    \/ UserStepBack
    \/ SessionINIT
    \/ SessionSET_AGENTS
    \/ SessionPLAY
    \/ SessionPAUSE
    \/ SessionSTEP
    \/ SessionRESET
    \/ SessionTimer
    \/ StoreReceives

SpecSession == InitSession /\ [][NextSession]_vars

\* ----------------------------------------------------------------- claims
TickMsgs(o) == SelectSeq(o, LAMBDA m : m.type = "TICK")
NoTick(o) == Len(TickMsgs(o)) = 0

\* C1: once PAUSE has been handled, nothing emits a TICK until a later PLAY or
\* STEP is handled, except the snapshot of an INIT or RESET; in particular the
\* callback of a timer left pending by an earlier PLAY executes no tick.
C1_NoTickAfterPause ==
    (ctl = "PAUSE" /\ last \notin {"INIT", "RESET"}) => NoTick(out)

\* C1 witness: on an initialized engine that had executed ticks, a timer left
\* over from an earlier PLAY has fired after the PAUSE.
C1_Witness ==
    /\ Initialized
    /\ ctl = "PAUSE"
    /\ last = "TIMER"
    /\ tick >= 2

\* C2: at most one loop timer is pending at any time, whatever the sequence of
\* PLAY, PAUSE, STEP, RESET and INIT commands.
C2_AtMostOneTimer == Cardinality(timers) <= 1

\* C3: after an initialized engine handles STEP the tick counter has advanced
\* by exactly 1 with exactly one TICK emitted, the run flag is false and no loop
\* timer is pending; and until another PLAY or STEP no executed tick emits a TICK.
C3_StepRunsOneTick ==
    [][/\ (last' = "STEP" /\ Initialized) =>
            /\ tick' = tick + 1
            /\ Len(TickMsgs(out')) = 1
            /\ ~running'
            /\ animFrameId' = NoTimer
            /\ timers' = {}
       /\ (ctl' = "STEP" /\ last' \notin {"STEP", "INIT", "RESET"}) => NoTick(out')]_vars

\* C4 as stated: every executed tick advances the counter by 1 and emits one
\* TICK with the new population and counter; each TICK value is 0 or one more
\* than the previous TICK's; and no TICK is emitted before INIT has been handled.
C4_Original ==
    [][/\ executed' = executed + 1 =>
            /\ tick' = tick + 1
            /\ TickMsgs(out') = <<TickMsg(agents', tick', debugEnabled)>>
       /\ ~NoTick(out') =>
            /\ Len(TickMsgs(out')) = 1
            /\ TickMsgs(out')[1].tick \in {0, lastTick + 1}
            /\ "INIT" \in seen']_vars

\* C4 amended: the same, with "before INIT or RESET has been handled".
C4_TickSequence ==
    [][/\ executed' = executed + 1 =>
            /\ tick' = tick + 1
            /\ TickMsgs(out') = <<TickMsg(agents', tick', debugEnabled)>>
       /\ ~NoTick(out') =>
            /\ Len(TickMsgs(out')) = 1
            /\ TickMsgs(out')[1].tick \in {0, lastTick + 1}
            /\ seen' # {}]_vars

\* C4 witness: a tick executed by a timer callback has emitted a TICK whose value
\* is above 1, on a population it moved.
C4_Witness ==
    /\ last = "TIMER"
    /\ Len(TickMsgs(out)) = 1
    /\ out[1].tick = 2
    /\ out[1].agents = agents
    /\ \E i \in 1..Len(agents) : agents[i].x = 8

C9_Frame ==
    /\ agents' = agents
    /\ obstacles' = obstacles
    /\ tick' = tick
    /\ posHistory' = posHistory
    /\ debugEnabled' = debugEnabled
    /\ running' = running

\* the field-wise merge of the partial config carried by the message
C9_Merged ==
    /\ DOMAIN config' = Fields
    /\ \A f \in Fields :
         config'[f] = IF f \in DOMAIN partial' THEN partial'[f] ELSE config[f]

C9_NoEffect ==
    /\ config' = config
    /\ algorithm' = algorithm
    /\ spatialHash' = spatialHash
    /\ created' = {}

\* C9 as stated: UPDATE_CONFIG merges field-wise and leaves the population, the
\* obstacles, the tick counter, the histories, the debug flag and the run flag
\* alone; handled before any INIT it has no effect.
C9_Original ==
    [][last' = "UPDATE_CONFIG" =>
        /\ C9_Frame
        /\ IF "INIT" \in seen THEN C9_Merged ELSE C9_NoEffect]_vars

\* C9 amended: the same, with "handled before any INIT or RESET it has no effect".
C9_MergeOnly ==
    [][last' = "UPDATE_CONFIG" =>
        /\ C9_Frame
        /\ IF seen # {} THEN C9_Merged ELSE C9_NoEffect]_vars

\* C9 witness: an UPDATE_CONFIG carrying only agentCount has been merged into the
\* config of a running engine whose live population has another size.
C9_Witness ==
    /\ Initialized
    /\ last = "UPDATE_CONFIG"
    /\ DOMAIN partial = {"agentCount"}
    /\ config.agentCount = partial.agentCount
    /\ config.algorithm = PSO
    /\ Len(agents) # config.agentCount
    /\ running
    /\ tick >= 1

\* the selector or the neighbor radius has another value after the merge
C10_Changed ==
    \/ config'.algorithm # config.algorithm
    \/ config'.neighborRadius # config.neighborRadius

\* C10 as stated: a Reconfigure in which the selector or the neighbor radius
\* changed recreates both the strategy instance and the spatial index; one in
\* which neither changed leaves the strategy instance and its memory intact.
C10_Original ==
    [][(last' = "UPDATE_CONFIG" /\ seen # {}) =>
        IF C10_Changed
        THEN /\ created' = {"algorithm", "spatialHash"}
             /\ algorithm' = [kind |-> config'.algorithm, tickCount |-> 0, mem |-> {}]
        ELSE /\ algorithm' = algorithm
             /\ "algorithm" \notin created']_vars

\* C10 amended: a Reconfigure whose partial config carries an algorithm selector
\* recreates the strategy instance, whether or not the value changed, and one
\* that carries a non-zero neighbor radius recreates the spatial index, each
\* independently of the other; what the partial does not carry is left intact.
C10_RecreateWhatIsCarried ==
    [][(last' = "UPDATE_CONFIG" /\ seen # {}) =>
        /\ IF "algorithm" \in DOMAIN partial'
           THEN /\ "algorithm" \in created'
                /\ algorithm' = [kind |-> config'.algorithm, tickCount |-> 0, mem |-> {}]
           ELSE /\ "algorithm" \notin created'
                /\ algorithm' = algorithm
        /\ IF "neighborRadius" \in DOMAIN partial' /\ partial'.neighborRadius # 0
           THEN /\ "spatialHash" \in created'
                /\ spatialHash' = [cellSize |-> config'.neighborRadius, count |-> 0]
           ELSE /\ "spatialHash" \notin created'
                /\ spatialHash' = spatialHash]_vars

\* C10 witness: an UPDATE_CONFIG carrying the selector the engine already had
\* has replaced a strategy instance that had ticked by a fresh one.
C10_Witness ==
    /\ last = "UPDATE_CONFIG"
    /\ DOMAIN partial = {"algorithm"}
    /\ partial.algorithm = PSO
    /\ seen = {"INIT"}
    /\ lastTick >= 1
    /\ "algorithm" \in created
    /\ algorithm.mem = {}

\* a tick has just been executed by the handler that ran last
TickExecuted == Initialized /\ last \in {"STEP", "PLAY", "TIMER"} /\ ~NoTick(out)

Flagged(i) == agents[i].state = Anomaly

\* the position recorded for the id 40 ticks before the latest one (the oldest
\* recorded one while only 40 have been recorded)
C6_Reference(r) ==
    IF Len(r) > ANOMALY_WINDOW THEN r[Len(r) - ANOMALY_WINDOW] ELSE r[1]

\* C6: on every executed tick an agent is emitted as Anomaly if and only if at
\* least 40 positions have been recorded for its id and its latest position is
\* less than 8 away from its position 40 ticks earlier.
C6_FlaggedIffStuck ==
    TickExecuted =>
        \A i \in 1..Len(agents) :
            LET r == rec[agents[i].id] IN
            Flagged(i) <=>
                /\ Len(r) >= ANOMALY_WINDOW
                /\ DistSq(agents[i].x, agents[i].y, C6_Reference(r).x, C6_Reference(r).y)
                     < ANOMALY_DISPLACEMENT * ANOMALY_DISPLACEMENT

\* C7: no agent of a population spawned by INIT (empty agent list) or RESET is
\* emitted as Anomaly on any of the first 39 ticks executed afterwards.
C7_FreshNeverFlagged ==
    (TickExecuted /\ origin = "spawned" /\ age < ANOMALY_WINDOW) =>
        \A i \in 1..Len(agents) : ~Flagged(i)

\* C8: the first tick executed after SET_AGENTS replaced the population flags
\* none of its agents.
C8_NoFlagAfterRollback ==
    (TickExecuted /\ origin = "rollback" /\ age = 1) =>
        \A i \in 1..Len(agents) : ~Flagged(i)

\* a strategy instance that has not ticked and holds no per-agent memory
C11_Fresh(a) == a.tickCount = 0 /\ a.mem = {}

\* the step handles an UPDATE_CONFIG that switches the selector to another value
C11_Switch ==
    /\ last' = "UPDATE_CONFIG"
    /\ config # NoConfig
    /\ HasAlgorithm(partial')
    /\ partial'.algorithm # config.algorithm

\* C11: a Reconfigure that switches the selector to a different algorithm, and a
\* RESET, leave a strategy instance of the configured kind with no memory and
\* tick count 0; nothing but an executed tick gives an instance memory, so the
\* first tick afterwards runs on that empty instance; and a tick only adds
\* records for the agents it is given to the memory of the instance it runs on.
C11_FreshStrategy ==
    [][/\ (C11_Switch \/ last' = "RESET") =>
            /\ algorithm'.kind = config'.algorithm
            /\ C11_Fresh(algorithm')
       /\ executed' = executed => (algorithm' = algorithm \/ C11_Fresh(algorithm'))
       /\ executed' # executed =>
            /\ algorithm'.kind = algorithm.kind
            /\ algorithm'.mem \subseteq
                 algorithm.mem \cup {agents[i].id : i \in 1..Len(agents)}]_vars

\* C11 witness: a swarm instance that had ticked and held memory was replaced by
\* a switch to foraging, and the first tick after the switch has run on the new
\* instance.
C11_Witness ==
    /\ last = "STEP"
    /\ seen = {"INIT"}
    /\ tick >= 2
    /\ prior.kind = PSO
    /\ prior.mem # {}
    /\ algorithm.kind = AntColony
    /\ algorithm.tickCount = 1

\* C12: INIT posts exactly one READY and then exactly one TICK snapshot with
\* tick 0; afterwards the population is the supplied list if it is non-empty and
\* otherwise config.agentCount spawned agents with ids 0..agentCount-1, the
\* obstacle list and the config are the supplied ones and the tick counter is 0.
C12_InitResult ==
    [][last' = "INIT" =>
        /\ Len(out') = 2
        /\ out'[1] = ReadyMsg
        /\ out'[2].type = "TICK" /\ out'[2].tick = 0 /\ out'[2].agents = agents'
        /\ IF Len(partial'.agents) > 0
           THEN agents' = partial'.agents
           ELSE /\ Len(agents') = partial'.config.agentCount
                /\ \A i \in 1..Len(agents') : agents'[i].id = i - 1
        /\ config' = partial'.config
        /\ obstacles' = partial'.obstacles
        /\ tick' = 0]_vars

\* C12 witness: an INIT with an empty agent list and a non-empty obstacle list
\* handled by an engine that had ticked on a supplied population.
C12_Witness ==
    /\ last = "INIT"
    /\ partial.agents = << >>
    /\ partial.obstacles # << >>
    /\ executed >= 1
    /\ agents # << >>
    /\ agents[1].x = 0
    /\ prior.mem # {}

\* C13: the TICK of every executed tick carries debugInfo iff the most recently
\* handled SET_DEBUG had enabled = true (disabled before any SET_DEBUG):
\* SET_DEBUG sets the flag to its payload and changes nothing else, no other
\* handler changes the flag, and an executed tick's TICK carries debugInfo
\* exactly when the flag is set.
C13_DebugInfoIffEnabled ==
    [][/\ last' = "SET_DEBUG" =>
            /\ debugEnabled' = partial'.enabled
            /\ UNCHANGED <<agents, config, obstacles, algorithm, spatialHash, tick,
                           running, animFrameId, posHistory, timers>>
            /\ out' = << >>
       /\ last' # "SET_DEBUG" => debugEnabled' = debugEnabled
       /\ (seen = {} /\ executed = 0 /\ last = "NONE") => debugEnabled = FALSE
       /\ executed' = executed + 1 =>
            /\ Len(TickMsgs(out')) = 1
            /\ TickMsgs(out')[1].debugInfo = debugEnabled']_vars

\* C13 witness: debug mode was enabled on an engine that had ticked, and the next
\* executed tick has posted a TICK carrying debugInfo.
C13_Witness ==
    /\ last = "STEP"
    /\ executed >= 2
    /\ debugEnabled
    /\ Len(out) = 1
    /\ out[1].debugInfo = TRUE
    /\ out[1].tick >= 2

\* the brute-force scan over the agents of the most recent rebuild
C14_BruteForce ==
    {a \in Range(hashInput) :
        /\ a.id # hashQuery.excludeId
        /\ DistSq(a.x, a.y, hashQuery.x, hashQuery.y) <= hashQuery.radius * hashQuery.radius}

\* C14 as stated: for every radius, queryRadius returns exactly the agents of the
\* most recent rebuild within radius of the query point, the excluded id apart.
C14_Original == hashQuery.asked => hashQuery.result = C14_BruteForce

\* C14 amended: the same for every radius > 0.
C14_MatchesBruteForce ==
    (hashQuery.asked /\ hashQuery.radius > 0) => hashQuery.result = C14_BruteForce

\* C14 witness: cellSize 50, agents at (0,0) and (60,0) indexed after an earlier
\* rebuild with other positions; queryRadius(0, 0, 70) excluding id 0 has found
\* the agent of the neighbouring cell.
C14_Witness ==
    /\ hashQuery.asked
    /\ hashIndex.cellSize = 50
    /\ hashInput = <<Agent(0, [x |-> 0, y |-> 0], Active), Agent(1, [x |-> 60, y |-> 0], Active)>>
    /\ hashQuery.x = 0 /\ hashQuery.y = 0 /\ hashQuery.radius = 70
    /\ hashQuery.excludeId = 0
    /\ hashQuery.result = {Agent(1, [x |-> 60, y |-> 0], Active)}

\* C15: queryRadius with a radius that is zero or negative returns an empty
\* result, whatever the index holds and wherever the query point is.
C15_NonPositiveRadiusEmpty ==
    (hashQuery.asked /\ hashQuery.radius <= 0) => hashQuery.result = {}

\* the food sources (1-based) whose centre is less than their radius away from p
C16_Inside(world, p) ==
    {fi \in 1..Len(FoodSources(world)) :
        LET food == FoodSources(world)[fi]
        IN  DistSq(p.x, p.y, food.x, food.y)
                < (food.radius * AntScale) * (food.radius * AntScale)}

\* the pre-move position of the update is strictly inside some food source
C16_InFood == C16_Inside(ant'.world, ant'.pos) # {}

\* the lowest index (0-based) of the food sources the position is inside of
C16_LowestFood ==
    (CHOOSE fi \in C16_Inside(ant'.world, ant'.pos) :
        \A fj \in C16_Inside(ant'.world, ant'.pos) : fi <= fj) - 1

\* C16: an ant in search when its update begins (a new ant begins in search)
\* switches to return iff its pre-move position is strictly inside some food
\* source, then remembering the lowest-indexed one with stepsSearching 0; an ant
\* in return, one that has just switched included, switches to search iff its
\* pre-move distance to the nest is < 15; there is no other mode change.
C16_ModeMachine ==
    [][ant' # ant =>
        /\ ~ant.has => ant'.began = "search"
        /\ ant.has => ant'.began = ant.mode
        /\ ant'.began = "search" =>
             /\ ant'.mid.mode = "return" <=> C16_InFood
             /\ C16_InFood => /\ ant'.mid.targetFoodIdx = C16_LowestFood
                              /\ ant'.mid.stepsSearching = 0
        /\ ant'.began = "return" => ant'.mid.mode = "return"
        /\ ant'.mid.mode = "return" =>
             (ant'.mode = "search" <=> NearNest(ant'.world, ant'.pos))
        /\ ant'.mid.mode = "search" => ant'.mode = "search"]_vars

\* C16 witness: a searching ant that already had memory was updated at a
\* position inside several food sources, switched to return in that update and
\* remembered the first of them.
C16_Witness ==
    /\ ant.has
    /\ ant.began = "search"
    /\ ant.stepsSearching = 0
    /\ ant.mid.stepsSearching = 0
    /\ Cardinality(C16_Inside(ant.world, ant.pos)) >= 2
    /\ ant.mode = "return"
    /\ ant.targetFoodIdx = 0

\* the largest value of a grid
C17_Max(g) == IF g = << >> THEN 0 ELSE CHOOSE m \in Range(g) : \A v \in Range(g) : v <= m

\* the step is a tick without deposit
C17_QuietTick == field'.tickCount = field.tickCount + 1 /\ field'.quiet = field.quiet + 1

C18_Kept ==
    \A id \in DOMAIN swarm.particles :
        /\ id \in DOMAIN swarm'.particles
        /\ swarm'.particles[id].personalBestFitness
               <= swarm.particles[id].personalBestFitness

C18_PersonalBestMonotone ==
    [][swarm'.tickCount = swarm.tickCount + 1 =>
          IF swarm'.tickCount % 120 = 0
          THEN /\ DOMAIN swarm'.mid.particles = {}
               /\ swarm'.mid.globalBestFitness = Infinity
               /\ swarm'.lost = DOMAIN swarm.particles
          ELSE /\ C18_Kept
               /\ swarm'.globalBestFitness <= swarm.globalBestFitness
               /\ swarm'.mid.particles = swarm.particles
               /\ swarm'.mid.globalBestFitness = swarm.globalBestFitness
               /\ swarm'.lost = {}]_vars

\* after a teleport: a tick without teleport that found memory and a global
\* best in place and replaced a personal best by a smaller one
C18_Witness ==
    /\ swarm.tickCount > 120
    /\ swarm.tickCount % 120 # 0
    /\ swarm.improved # {}
    /\ DOMAIN swarm.mid.particles = {0, 1}
    /\ swarm.mid.globalBestFitness < Infinity

\* C19: after a tick whose tick count t is a positive multiple of 120, the
\* target with index (t / 120) mod targetCount (1 at 120, 2 at 240, 0 at 360)
\* is where the teleport drew it with the velocity it drew, every other target
\* is where its ordinary movement put it, and in front of the agent loop the
\* particle memory was empty and the global best the sentinel.
C19_TeleportWipes ==
    (swarm.tickCount > 0 /\ swarm.tickCount % 120 = 0) =>
        LET e == (swarm.tickCount \div 120) % Len(swarm.targets)
        IN  /\ swarm.targets[e + 1] = swarm.draw
            /\ \A j \in DOMAIN swarm.targets :
                   j # e + 1 => swarm.targets[j] = swarm.moved[j]
            /\ swarm.tickCount = 120 => e = 1
            /\ swarm.tickCount = 240 => e = 2
            /\ swarm.tickCount = 360 => e = 0
            /\ DOMAIN swarm.mid.particles = {}
            /\ swarm.mid.globalBestFitness = Infinity

\* the third teleport: target 0 is moved away from its path, the records of
\* both agents are cleared, and the agent loop of the same tick starts anew
C19_Witness ==
    /\ swarm.tickCount = 360
    /\ swarm.targets[1] = swarm.draw
    /\ swarm.targets[1] # swarm.moved[1]
    /\ swarm.lost = {0, 1}
    /\ DOMAIN swarm.particles # {}

\* C20: the velocity a strategy emits for an agent is never longer than the
\* strategy's speed cap: maxSpeed for Flocking and for Swarm-Optimization (after
\* the wall bounce too), 0.6 x maxSpeed for an ant whose update ends in search
\* and 0.8 x maxSpeed for one whose update ends in return.
C20_SpeedCapped ==
    motion.ticks > 0 =>
        /\ motion.kind \in {"boids", "pso"} =>
               MagSq(motion.vel) <= motion.maxSpeed * motion.maxSpeed
        /\ (motion.kind = "ants" /\ motion.mode = "search") =>
               25 * MagSq(motion.vel) <= 9 * motion.maxSpeed * motion.maxSpeed
        /\ (motion.kind = "ants" /\ motion.mode = "return") =>
               25 * MagSq(motion.vel) <= 16 * motion.maxSpeed * motion.maxSpeed

\* C21: the rollback history never holds more than 300 populations; setAgents
\* appends the population, and on a history that already holds 300 drops the
\* oldest entry; stepBack on a history of at most one entry changes nothing in
\* the store and posts nothing to the worker.
C21_BoundedHistory ==
    [][/\ Len(store'.agentsHistory) <= 300
       /\ store'.last = "setAgents" /\ store'.received # store.received =>
             /\ Len(store.agentsHistory) < 300 =>
                   store'.agentsHistory = Append(store.agentsHistory, store'.agents)
             /\ Len(store.agentsHistory) = 300 =>
                   store'.agentsHistory =
                       Append(Tail(store.agentsHistory), store'.agents)
       /\ store'.last = "stepBack" /\ Len(store.agentsHistory) <= 1 =>
             /\ store'.agentsHistory = store.agentsHistory
             /\ store'.agents = store.agents
             /\ store'.tick = store.tick
             /\ store'.status = store.status
             /\ store'.sent = << >>]_vars

\* C21 witness: in a store with a worker, a setAgents on a full history has
\* evicted the oldest populations: 300 entries, the newest from TICK 303.
C21_Witness ==
    /\ store.worker
    /\ store.last = "setAgents"
    /\ Len(store.agentsHistory) = 300
    /\ store.agentsHistory[1] = <<3>>
    /\ store.agentsHistory[300] = <<303>>

\* C22: handling SET_AGENTS leaves the position history of every agent id as
\* it was, and leaves the tick counter, the config, the obstacle list, the
\* strategy instance with its memory, the debug flag and the run flag unchanged.
C22_SetAgentsFrame ==
    [][last' = "SET_AGENTS" =>
          /\ posHistory' = posHistory
          /\ tick' = tick
          /\ config' = config
          /\ obstacles' = obstacles
          /\ algorithm' = algorithm
          /\ debugEnabled' = debugEnabled
          /\ running' = running]_vars

\* the agents of a population that carry the id
C23_Carrying(ags, id) == {i \in 1..Len(ags) : ags[i].id = id}

\* C23: no id's position history ever holds more than 40 entries; an executed
\* tick appends to the history of every id in the population the post-tick
\* position of its agent, dropping the oldest entry when that makes 41, and
\* leaves the other histories alone; a history becomes empty only by RESET.
C23_HistoryWindow ==
    [][/\ \A id \in DOMAIN posHistory' : Len(posHistory'[id]) <= 40
       /\ executed' = executed + 1 =>
             \A id \in DOMAIN posHistory :
                 IF C23_Carrying(agents', id) = {}
                 THEN posHistory'[id] = posHistory[id]
                 ELSE LET a == agents'[CHOOSE i \in C23_Carrying(agents', id) : TRUE]
                          g == Append(posHistory[id], [x |-> a.x, y |-> a.y])
                      IN  posHistory'[id] = IF Len(g) > 40 THEN Tail(g) ELSE g
       /\ \A id \in DOMAIN posHistory :
             (posHistory[id] # << >> /\ posHistory'[id] = << >>) => last' = "RESET"]_vars

\* C23 witness: the 41st tick on one population has pushed the first recorded
\* position of agent 0 out of its history of 40.
C23_Witness ==
    /\ last = "STEP"
    /\ Len(posHistory[0]) = 40
    /\ Len(rec[0]) = 41
    /\ posHistory[0] = Tail(rec[0])
    /\ rec[0][1] # rec[0][2]

\* the detector triggers on the tick just executed: 40 positions recorded and
\* the latest less than 8 away from the oldest of them
C24_Triggered ==
    /\ Len(emit'.hist) >= 40
    /\ DistSq(emit'.hist[Len(emit'.hist)].x, emit'.hist[Len(emit'.hist)].y,
              emit'.hist[1].x, emit'.hist[1].y) < 64

\* C24: the state emitted for an agent on a tick is Anomaly when the detector
\* triggers on that tick and otherwise the strategy's state, whatever state
\* was emitted for it before: Active for a Flocking agent, and for an ant Stuck
\* iff its mode at the end of its update is return, Active iff it is search.
C24_StateRecomputed ==
    [][emit'.ticks = emit.ticks + 1 =>
          emit'.state =
              IF C24_Triggered THEN Anomaly
              ELSE IF emit.kind = "boids" THEN Active
              ELSE IF emit'.mem.mode = "return" THEN Stuck
              ELSE Active]_vars

\* C24 witness: an ant emitted as Anomaly on the tick before leaves the food
\* source it sat on in return mode and is emitted as Stuck.
C24_Witness ==
    /\ emit.kind = "ants"
    /\ emit.prev = Anomaly
    /\ emit.mem.mode = "return"
    /\ emit.state = Stuck

\* the ant's last update was a search step that found no food
C25_SearchStep ==
    /\ ant.has
    /\ ant.began = "search"
    /\ ant.mid.mode = "search"

\* C25 as stated: an ant with id mod 10 < 3 never has its force computed from
\* the pheromone field; any other ant pure-wanders on exactly the search steps
\* with stepsSearching 1 through 50 and senses the field on the later ones.
C25_FiftySteps ==
    /\ ant.id % 10 < 3 => ant.steer # "field"
    /\ (C25_SearchStep /\ ant.id % 10 >= 3) =>
           /\ ant.mid.stepsSearching \in 1..50 => ant.steer = "wander"
           /\ ant.mid.stepsSearching > 50 => ant.steer = "field"

\* C25 amended: an ant with id mod 10 < 3 never has its force computed from the
\* pheromone field; any other ant pure-wanders on exactly the search steps with
\* stepsSearching 1 through 49 and senses the field from step 50 of the
\* episode on; no force is computed from the field outside a search step.
C25_WanderThenSense ==
    /\ ant.id % 10 < 3 => ant.steer # "field"
    /\ ~C25_SearchStep => ant.steer = "none"
    /\ C25_SearchStep => ant.mid.stepsSearching >= 1
    /\ (C25_SearchStep /\ ant.id % 10 >= 3) =>
           /\ ant.mid.stepsSearching \in 1..49 => ant.steer = "wander"
           /\ ant.mid.stepsSearching >= 50 => ant.steer = "field"

\* C25 witness: a non-explorer on the 50th step of a search episode senses the
\* field.
C25_Witness ==
    /\ C25_SearchStep
    /\ ant.id = 13
    /\ ant.mid.stepsSearching = 50
    /\ ant.steer = "field"

\* C26 as stated: at the end of every Foraging tick every cell of the field is
\* between 0 and 12 and is exactly 0 or at least 0.01.
C26_AlwaysSnapped ==
    \A i \in 1..Len(field.grid) :
        /\ field.grid[i] >= 0 /\ field.grid[i] <= 12000
        /\ field.grid[i] = 0 \/ field.grid[i] >= 10

\* C26 amended: at the end of every Foraging tick every cell of the field is
\* between 0 and 12; at the end of a tick without diffusion (tick count not a
\* multiple of 4) every cell is exactly 0 or at least 0.01, with or without
\* deposits.
C26_SnappedUnlessDiffused ==
    \A i \in 1..Len(field.grid) :
        /\ field.grid[i] >= 0 /\ field.grid[i] <= 12000
        /\ field.tickCount % 4 # 0 => (field.grid[i] = 0 \/ field.grid[i] >= 10)

\* C26 witness: a diffusion tick ends with a cell strictly between 0 and 0.01
\* next to cells a returning ant deposited in.
C26_Witness ==
    /\ field.tickCount > 0
    /\ field.tickCount % 4 = 0
    /\ \E i \in 1..Len(field.grid) : field.grid[i] >= 1 /\ field.grid[i] <= 9
    /\ \E i \in 1..Len(field.grid) : field.grid[i] >= 100

\* the grid of the field after the evaporation and, on every 4th tick, the
\* diffusion of the tick that follows
C27_Decayed ==
    LET e == [field EXCEPT !.grid = [i \in 1..Len(field.grid) |-> Evaporate(field.grid[i])]]
    IN  IF (field.tickCount + 1) % 4 = 0 THEN Diffuse(e).grid ELSE e.grid

\* max(0.5, 3.0 - 0.005 x distance) for the ant's position and remembered food
C27_Strength ==
    IF ant'.mid.targetFoodIdx < 0 THEN 2500
    ELSE LET food == FoodSources(ant'.world)[ant'.mid.targetFoodIdx + 1]
             d == RoundSqrt(DistSq(ant'.pos.x, ant'.pos.y, food.x, food.y))
         IN  IF 3000 - RoundDiv(d, 2) < 500 THEN 500 ELSE 3000 - RoundDiv(d, 2)

\* what the tick's deposit adds to the cell in column x and row y
C27_Added(x, y) ==
    LET cx == ant'.pos.x \div 80
        cy == ant'.pos.y \div 80
    IN  IF ant'.mid.mode # "return" THEN 0
        ELSE IF x = cx /\ y = cy THEN C27_Strength
        ELSE IF (x = cx /\ (y = cy + 1 \/ y = cy - 1)) \/ (y = cy /\ (x = cx + 1 \/ x = cx - 1))
             THEN (3 * C27_Strength) \div 10
        ELSE 0

\* C27: a tick's deposit is made only when the ant is in return mode after the
\* search block; it adds the strength max(0.5, 3.0 - 0.005 x distance to the
\* remembered food) to the cell containing the ant and 0.3 x strength to its
\* four cardinal neighbours, each capped at 12, and changes no other cell: a
\* neighbour outside the grid is skipped and never lands in another row; the
\* level read at a position outside the grid is 0; the grid keeps its
\* cols x rows cells.
C27_DepositCells ==
    [][field'.tickCount = field.tickCount + 1 =>
          /\ Len(field'.grid) = field.cols * field.rows
          /\ \A i \in 1..Len(field'.grid) :
                 LET v == C27_Decayed[i] + C27_Added((i - 1) % field.cols, (i - 1) \div field.cols)
                 IN  field'.grid[i] = IF v > 12000 THEN 12000 ELSE v
          /\ LET cx == ant'.pos.x \div 80
                 cy == ant'.pos.y \div 80
             IN  field'.pLevel =
                     IF cx >= 0 /\ cx < field.cols /\ cy >= 0 /\ cy < field.rows
                     THEN field'.grid[cy * field.cols + cx + 1]
                     ELSE 0]_vars

\* C27 witness: a returning ant in the last column of the first row has
\* deposited there and the first cell of the second row is still empty.
C27_Witness ==
    /\ ant.mid.mode = "return"
    /\ ant.pos.x = 11999
    /\ field.tickCount <= 3
    /\ field.grid[150] >= 2000
    /\ field.grid[149] >= 600
    /\ field.grid[300] >= 600
    /\ field.grid[151] = 0

\* C28 as stated: a Swarm-Optimization agent is emitted Stuck iff its emitted
\* position is less than 35 from the target nearest to that position, that is
\* iff some target is less than 35 from it, and Active otherwise.
C28_StuckNearNearest ==
    (motion.kind = "pso" /\ motion.ticks > 0) =>
        /\ motion.state \in {Stuck, Active}
        /\ motion.state = Stuck <=>
               \E i \in 1..Len(motion.targets) :
                   Within(motion.out, motion.targets[i], 35000)

\* the position integrated on an axis from the clamped velocity
C29_Integrated(axis) ==
    IF axis = "x" THEN motion'.pos.x + motion'.clamped.x * motion.speedMultiplier
    ELSE motion'.pos.y + motion'.clamped.y * motion.speedMultiplier

C29_Size(axis) == IF axis = "x" THEN motion.world.w * 1000 ELSE motion.world.h * 1000

C29_Comp(r, axis) == IF axis = "x" THEN r.x ELSE r.y

\* C29 as stated: an integrated position that violates a wall on an axis is
\* emitted at the boundary with the velocity component the negative of the
\* clamped one; with no wall violated position and velocity are emitted as
\* integrated and clamped.
C29_SignFlipped ==
    [][(motion.kind = "pso" /\ motion'.ticks = motion.ticks + 1) =>
          \A axis \in {"x", "y"} :
              LET q == C29_Integrated(axis)
                  c == C29_Comp(motion'.clamped, axis)
              IN  IF q < 10000 \/ q > C29_Size(axis) - 10000
                  THEN /\ C29_Comp(motion'.out, axis) \in {10000, C29_Size(axis) - 10000}
                       /\ C29_Comp(motion'.vel, axis) = -c
                  ELSE /\ C29_Comp(motion'.out, axis) = q
                       /\ C29_Comp(motion'.vel, axis) = c]_vars

\* C29 amended: an integrated position below 10 on an axis is emitted at 10
\* with the absolute value of the clamped velocity component; a position that
\* then lies above size - 10 is emitted at size - 10 with minus the absolute
\* value; so the component points into the world or is 0 and is the negative
\* of the clamped one only when that pointed out of the world.  With no wall
\* violated position and velocity are emitted as integrated and clamped.
C29_BounceInwards ==
    [][(motion.kind = "pso" /\ motion'.ticks = motion.ticks + 1) =>
          \A axis \in {"x", "y"} :
              LET q == C29_Integrated(axis)
                  c == C29_Comp(motion'.clamped, axis)
                  a == IF c < 0 THEN -c ELSE c
                  held == IF q < 10000 THEN 10000 ELSE q
              IN  IF held > C29_Size(axis) - 10000
                  THEN /\ C29_Comp(motion'.out, axis) = C29_Size(axis) - 10000
                       /\ C29_Comp(motion'.vel, axis) = -a
                  ELSE IF q < 10000
                  THEN /\ C29_Comp(motion'.out, axis) = 10000
                       /\ C29_Comp(motion'.vel, axis) = a
                  ELSE /\ C29_Comp(motion'.out, axis) = q
                       /\ C29_Comp(motion'.vel, axis) = c]_vars

\* C29 witness: an agent in the left margin moving to the right is emitted at
\* x = 10 with its clamped velocity, not the negative of it.
C29_Witness ==
    /\ motion.kind = "pso"
    /\ motion.ticks > 0
    /\ motion.world.w = 1200
    /\ motion.pos.x = 5000
    /\ motion.clamped.x > 0
    /\ motion.out.x = 10000
    /\ motion.vel.x = motion.clamped.x

\* the emitted position lies where the strategy keeps its agents
C30_Kept ==
    /\ motion.kind = "boids" =>
           /\ motion.out.x >= 0 /\ motion.out.x < motion.world.w * 1000
           /\ motion.out.y >= 0 /\ motion.out.y < motion.world.h * 1000
    /\ motion.kind = "ants" =>
           /\ motion.out.x >= 1000 /\ motion.out.x <= (motion.world.w - 1) * 1000
           /\ motion.out.y >= 1000 /\ motion.out.y <= (motion.world.h - 1) * 1000
    /\ motion.kind = "pso" =>
           /\ motion.out.x >= 10000 /\ motion.out.x <= (motion.world.w - 10) * 1000
           /\ motion.out.y >= 10000 /\ motion.out.y <= (motion.world.h - 10) * 1000

\* the input position lies inside the world and maxSpeed x speedMultiplier is
\* smaller than both world dimensions
C30_Given ==
    /\ motion.ticks > 0
    /\ motion.pos.x >= 0 /\ motion.pos.x <= motion.world.w * 1000
    /\ motion.pos.y >= 0 /\ motion.pos.y <= motion.world.h * 1000
    /\ motion.maxSpeed * motion.speedMultiplier < motion.world.w * 1000
    /\ motion.maxSpeed * motion.speedMultiplier < motion.world.h * 1000

\* C30 as stated: given an input position inside the world and maxSpeed x
\* speedMultiplier smaller than both world dimensions, Flocking emits a
\* position in [0, width) x [0, height), Foraging in [1, width - 1] x
\* [1, height - 1], Swarm-Optimization in [10, width - 10] x [10, height - 10].
C30_InsideWorld == C30_Given => C30_Kept

\* C30 amended: the same, given moreover that both world dimensions are at
\* least 20.
C30_InsideWideWorld ==
    (C30_Given /\ motion.world.w >= 20 /\ motion.world.h >= 20) => C30_Kept

\* C30 witness: a Flocking agent next to the far corner has wrapped to the near
\* corner on both axes.
C30_Witness ==
    /\ motion.kind = "boids"
    /\ motion.ticks > 0
    /\ motion.world.w = 1200
    /\ motion.pos = [x |-> 1199900, y |-> 799900]
    /\ motion.out.x < 10000
    /\ motion.out.y < 10000

\* every target of s lies in the rectangle lo .. w - lo by lo .. h - lo (tenths)
C31_In(s, lo) ==
    \A i \in 1..Len(s.targets) :
        /\ s.targets[i].x >= lo /\ s.targets[i].x <= s.world.w * 10 - lo
        /\ s.targets[i].y >= lo /\ s.targets[i].y <= s.world.h * 10 - lo

\* one coordinate after a target's move: a step across a bound (40 from the
\* wall) ends on the bound with the velocity negated; where the bounds cross
\* (a world narrower than 80) it ends on the lower one
C31_Axis(p, v, size, p1, v1) ==
    IF p + v < 400 THEN p1 = 400 /\ v1 = -v
    ELSE IF p + v > size - 400
         THEN p1 = (IF size - 400 < 400 THEN 400 ELSE size - 400) /\ v1 = -v
    ELSE p1 = p + v /\ v1 = v

\* the targets a tick starts from: the three of init on the first tick
C31_Before == IF swarm.initialized THEN swarm.targets ELSE PsoInit(swarm, swarm.world).targets

\* the three targets move and bounce as described, and a teleport replaces one
C31_Bounce ==
    /\ Len(swarm'.moved) = 3
    /\ Len(swarm'.targets) = 3
    /\ \A i \in 1..3 :
           /\ C31_Axis(C31_Before[i].x, C31_Before[i].vx, swarm.world.w * 10,
                       swarm'.moved[i].x, swarm'.moved[i].vx)
           /\ C31_Axis(C31_Before[i].y, C31_Before[i].vy, swarm.world.h * 10,
                       swarm'.moved[i].y, swarm'.moved[i].vy)
           /\ swarm'.targets[i] = swarm'.moved[i] \/ swarm'.targets[i] = swarm'.draw

C31_Wide == swarm.world.w >= 160 /\ swarm.world.h >= 160

\* C31 as stated: after every tick there are 3 targets, each inside the world
\* rectangle and, in a world at least 160 wide and high, at least 40 from
\* every wall, teleport ticks included; a target whose move crosses a bound on
\* an axis has its velocity on that axis negated and its position clamped to
\* the bound.
C31_InsideWorld ==
    [][swarm'.tickCount = swarm.tickCount + 1 =>
          /\ C31_Bounce
          /\ C31_In(swarm', 0)
          /\ C31_Wide => C31_In(swarm', 400)]_vars

\* C31 amended: after every tick there are 3 targets; in a world at least 160
\* wide and high each lies at least 40 from every wall, teleport ticks
\* included; a target whose move crosses a bound on an axis has its velocity
\* on that axis negated and its position clamped to the bound (to 40 where the
\* world is narrower than 80, which is outside a world narrower than 40).
C31_InsideWideWorld ==
    [][swarm'.tickCount = swarm.tickCount + 1 =>
          /\ C31_Bounce
          /\ C31_Wide => C31_In(swarm', 400)]_vars

\* C31 witness: in the 160 x 160 world a teleport has put a target 80 from
\* the walls on a tick on which a target's move ended on a bound.
C31_Witness ==
    /\ swarm.world.w = 160
    /\ swarm.draw # << >>
    /\ \E i \in 1..3 : swarm.targets[i] = swarm.draw /\ swarm.targets[i].x = 800
    /\ \E i \in 1..3 : swarm.moved[i].y \in {400, 1200} \/ swarm.moved[i].x \in {400, 1200}

\* the ids of a population, index by index
C32_Ids(ags) == [i \in 1..Len(ags) |-> ags[i].id]

\* C32: an executed tick, whatever the strategy, leaves the population with
\* the same length and the same id at every index; the length and the ids
\* change only by INIT, RESET or SET_AGENTS, so not by an UPDATE_CONFIG that
\* changes agentCount.
C32_IdentityKept ==
    [][/\ executed' = executed + 1 => C32_Ids(agents') = C32_Ids(agents)
       /\ C32_Ids(agents') # C32_Ids(agents) => last' \in {"INIT", "RESET", "SET_AGENTS"}
       /\ last' = "UPDATE_CONFIG" => agents' = agents]_vars

\* C32 witness: a tick executed on a population of one agent after the
\* configuration was changed to an agentCount of 2.
C32_Witness ==
    /\ last = "STEP"
    /\ executed > 0
    /\ config # NoConfig
    /\ config.agentCount = 2
    /\ Len(agents) = 1
    /\ agents[1].id = 0

\* the mode changed inside the update of the step: the search block found food,
\* or the return block reached the nest
C33_Transition == ant'.began # ant'.mid.mode \/ ant'.mid.mode # ant'.mode

\* stepsSearching of the memory the update started from (0 for a new record)
C33_StepsBefore == IF ant.has THEN ant.stepsSearching ELSE 0

\* C33: after every update of an ant the ant has a memory record (created on
\* the first update, never removed); a returning ant remembers one of the five
\* food sources and has stepsSearching 0; a searching ant remembers no food;
\* an ant that began the update in search has stepsSearching one above the
\* count it began with unless its mode changed in the update, and then 0; an
\* ant that keeps returning keeps the count 0.
C33_MemoryConsistent ==
    [][ant' # ant =>
        /\ ant'.has
        /\ ant'.mode \in {"search", "return"}
        /\ ant'.mode = "return" =>
             /\ ant'.targetFoodIdx \in 0..(Len(FoodSources(ant'.world)) - 1)
             /\ Len(FoodSources(ant'.world)) = 5
             /\ ant'.stepsSearching = 0
        /\ ant'.mode = "search" => ant'.targetFoodIdx = -1
        /\ ant'.began = "search" =>
             ant'.stepsSearching = IF C33_Transition THEN 0 ELSE C33_StepsBefore + 1
        /\ ant'.began = "return" => ant'.stepsSearching = 0
        /\ ant'.stepsSearching < C33_StepsBefore => C33_Transition]_vars

\* C33 witness: a searching ant found the fifth food source inside the nest
\* radius: it went to return and back to search in one update, and its memory
\* is that of a fresh search.
C33_Witness ==
    /\ ant.has /\ ant.began = "search" /\ ant.mid.mode = "return"
    /\ ant.mid.targetFoodIdx = 4
    /\ ant.mode = "search" /\ ant.targetFoodIdx = -1 /\ ant.stepsSearching = 0

\* C34: after every swarm-optimization tick, teleport ticks included, every
\* agent the tick was handed has a particle record whose personal-best fitness
\* is at most the fitness of the agent's pre-move position against the targets
\* of that tick, the global best is at most every stored personal best (records
\* of agents no longer in the population included), and it is below the
\* sentinel when the tick was handed an agent.
C34_BestsConsistent ==
    swarm.tickCount > 0 =>
        /\ \A i \in DOMAIN swarm.ags :
               /\ swarm.ags[i].id \in DOMAIN swarm.particles
               /\ swarm.particles[swarm.ags[i].id].personalBestFitness
                      <= Fitness(swarm.targets, swarm.ags[i].x, swarm.ags[i].y)
        /\ \A id \in DOMAIN swarm.particles :
               swarm.globalBestFitness <= swarm.particles[id].personalBestFitness
        /\ swarm.ags # << >> => swarm.globalBestFitness < Infinity

\* C34 witness: the second teleport tick cleared the records of both agents and
\* its agent loop, handed both agents, made their records anew.
C34_Witness ==
    /\ swarm.tickCount = 240
    /\ swarm.lost = {0, 1}
    /\ Len(swarm.ags) = 2
    /\ DOMAIN swarm.particles = {0, 1}
    /\ swarm.globalBestFitness < Infinity

\* no message is waiting for the worker
C35_AllHandled == store.toWorker = << >>

\* C35: once the worker has handled INIT and every message the store actions
\* play, pause, step, reset and stepBack posted, the store's status is running
\* exactly if the worker's run flag is set, and the worker has a pending loop
\* timer exactly if its run flag is set.
C35_RunStateAgrees ==
    (Initialized /\ C35_AllHandled) =>
        /\ store.status = "running" <=> running
        /\ timers # {} <=> running

\* no message is in flight in either direction
C36_Quiet == store.toWorker = << >> /\ store.toStore = << >>

\* C36: when the user's last action was a stepBack that rolled the population
\* back and no message is in flight any more, the population the store shows,
\* the worker's population and the last entry of agentsHistory are all the
\* population the stepBack restored.
C36_RollbackConverges ==
    (store.back /\ C36_Quiet) =>
        /\ store.agents = store.rolled
        /\ agents = store.rolled
        /\ store.agentsHistory # << >>
        /\ store.agentsHistory[Len(store.agentsHistory)] = store.rolled

\* C37: whenever no message is in flight between the store and an initialized
\* worker, the tick the store shows is the worker's tick counter.
C37_TickAgrees ==
    (Initialized /\ C36_Quiet) => store.tick = tick

\* the population shown is the last entry of the history, or both are empty
C38_Current(st) ==
    IF st.agentsHistory = << >>
    THEN st.agents = << >>
    ELSE st.agents = st.agentsHistory[Len(st.agentsHistory)]

\* what the claim says of a stepBack: one entry less, the entry before the
\* current one shown, status paused, the tick one lower but not below 0
C38_SteppedBack ==
    /\ Len(store.agentsHistory) > 1
    /\ store'.agentsHistory = SubSeq(store.agentsHistory, 1, Len(store.agentsHistory) - 1)
    /\ store'.agents = store.agentsHistory[Len(store.agentsHistory) - 1]
    /\ store'.status = "paused"
    /\ store'.tick = (IF store.tick > 0 THEN store.tick - 1 ELSE 0)

\* C38 as stated: after every store action the population shown is the last
\* history entry (or both are empty), and every stepBack removes the current
\* entry, shows the one before it, sets the status to paused and lowers the
\* tick by 1 but not below 0.
C38_EveryStepBack ==
    [][/\ C38_Current(store')
       /\ store'.last = "stepBack" => C38_SteppedBack]_vars

\* C38, amended: after every store action the population shown is the last
\* history entry (or both are empty); a stepBack on a history of at least two
\* entries removes the current entry, shows the one before it, sets the status
\* to paused and lowers the tick by 1 but not below 0; a stepBack on a shorter
\* history leaves population, history, status and tick as they are.
C38_StepBackRestores ==
    [][/\ C38_Current(store')
       /\ store'.last = "stepBack" =>
             IF Len(store.agentsHistory) > 1
             THEN C38_SteppedBack
             ELSE /\ store'.agentsHistory = store.agentsHistory
                  /\ store'.agents = store.agents
                  /\ store'.status = store.status
                  /\ store'.tick = store.tick]_vars

\* C38 witness: a stepBack at tick 0 on a history of two populations: the
\* first of them is shown again, the status is paused and the tick still 0.
C38_Witness ==
    /\ store.last = "stepBack"
    /\ store.status = "paused"
    /\ store.tick = 0
    /\ store.agentsHistory = << <<0>> >>
    /\ store.agents = <<0>>

====
